---------------------------- MODULE Spec2Model ----------------------------
(***************************************************************************)
(* Multi-agent query orchestration pipeline of the Bates advisor agent:    *)
(* intent router with its routing cache (src/src/agents/router_agent.py),  *)
(* orchestrator with serial / concurrent specialist dispatch and response  *)
(* synthesis (src/src/orchestrator.py), session memory                     *)
(* (src/src/memory/session_manager.py) and the metrics counters of the     *)
(* observability logger (src/src/observability/logger.py).                 *)
(*                                                                         *)
(* Text is modelled as a sequence of one-character strings, so that        *)
(* lower(), strip(), split(), startswith() and the substring test `in`     *)
(* are computed the way the Python code computes them.                     *)
(***************************************************************************)
EXTENDS Integers, Sequences, FiniteSets, TLC

(***************************************************************************)
(* Text primitives (Python str methods used by the code)                   *)
(***************************************************************************)
UpperCase == <<"A","B","C","D","E","F","G","H","I","J","K","L","M",
               "N","O","P","Q","R","S","T","U","V","W","X","Y","Z">>

LowerCase == <<"a","b","c","d","e","f","g","h","i","j","k","l","m",
               "n","o","p","q","r","s","t","u","v","w","x","y","z">>

\* str.lower() on one character
LowerChar(c) ==
    IF \E i \in 1..26 : UpperCase[i] = c
    THEN LowerCase[CHOOSE i \in 1..26 : UpperCase[i] = c]
    ELSE c

\* str.upper() on one character
UpperChar(c) ==
    IF \E i \in 1..26 : LowerCase[i] = c
    THEN UpperCase[CHOOSE i \in 1..26 : LowerCase[i] = c]
    ELSE c

IsAlpha(c) == \E i \in 1..26 : UpperCase[i] = c \/ LowerCase[i] = c

\* characters str.strip() and str.split() treat as whitespace
Whitespace == {" ", "\t", "\n"}

\* str.lower()
Lower(s) == [i \in 1..Len(s) |-> LowerChar(s[i])]

\* str.title(): a letter is upper-cased after a non-letter, lower-cased after a letter
Title(s) ==
    [i \in 1..Len(s) |->
        IF i = 1 \/ ~IsAlpha(s[i-1]) THEN UpperChar(s[i]) ELSE LowerChar(s[i])]

\* str.strip(chars): remove leading and trailing characters that are in chars
StripChars(s, chars) ==
    LET keep == {i \in 1..Len(s) : s[i] \notin chars}
    IN  IF keep = {} THEN <<>>
        ELSE LET lo == CHOOSE i \in keep : \A j \in keep : i <= j
                 hi == CHOOSE i \in keep : \A j \in keep : i >= j
             IN  SubSeq(s, lo, hi)

\* str.strip()
Strip(s) == StripChars(s, Whitespace)

\* str.startswith(prefix)
StartsWith(s, prefix) ==
    /\ Len(s) >= Len(prefix)
    /\ SubSeq(s, 1, Len(prefix)) = prefix

\* index of the first occurrence of pat in s, 0 when there is none (str.find + 1)
Find(s, pat) ==
    LET hits == {i \in 1..(Len(s) - Len(pat) + 1) : SubSeq(s, i, i + Len(pat) - 1) = pat}
    IN  IF hits = {} THEN 0 ELSE CHOOSE i \in hits : \A j \in hits : i <= j

\* the substring test `pat in s`
Contains(s, pat) == Find(s, pat) # 0

\* any(k in s for k in pats), pats a sequence of texts
ContainsAny(s, pats) == \E i \in 1..Len(pats) : Contains(s, pats[i])

RECURSIVE SplitAcc(_, _, _, _)
SplitAcc(s, sep, cur, acc) ==
    IF s = <<>> THEN Append(acc, cur)
    ELSE IF Head(s) = sep THEN SplitAcc(Tail(s), sep, <<>>, Append(acc, cur))
    ELSE SplitAcc(Tail(s), sep, Append(cur, Head(s)), acc)

\* str.split(sep) for a one-character separator: empty fields are kept
Split(s, sep) == SplitAcc(s, sep, <<>>, <<>>)

RECURSIVE WordsAcc(_, _, _)
WordsAcc(s, cur, acc) ==
    IF s = <<>> THEN (IF cur = <<>> THEN acc ELSE Append(acc, cur))
    ELSE IF Head(s) \in Whitespace
         THEN WordsAcc(Tail(s), <<>>, IF cur = <<>> THEN acc ELSE Append(acc, cur))
         ELSE WordsAcc(Tail(s), Append(cur, Head(s)), acc)

\* str.split() without argument: split on runs of whitespace, no empty fields
Words(s) == WordsAcc(s, <<>>, <<>>)

RECURSIVE Join(_, _)
\* sep.join(parts)
Join(parts, sep) ==
    IF parts = <<>> THEN <<>>
    ELSE IF Len(parts) = 1 THEN parts[1]
    ELSE parts[1] \o sep \o Join(Tail(parts), sep)

\* s.split(pat)[1] for a line that starts with pat: the text between the
\* leading pat and the next occurrence of pat (or the end of the line)
SplitField1(line, pat) ==
    LET rest == SubSeq(line, Len(pat) + 1, Len(line))
        nxt  == Find(rest, pat)
    IN  IF nxt = 0 THEN rest ELSE SubSeq(rest, 1, nxt - 1)

\* [f(x) for x in seq]
Map(seq, F(_)) == [i \in 1..Len(seq) |-> F(seq[i])]

\* [x for x in seq if P(x)]
Filter(seq, P(_)) ==
    LET F[i \in 0..Len(seq)] ==
            IF i = 0 THEN <<>>
            ELSE IF P(seq[i]) THEN Append(F[i-1], seq[i]) ELSE F[i-1]
    IN  F[Len(seq)]

\* seq[-n:]
LastN(seq, n) == IF Len(seq) <= n THEN seq ELSE SubSeq(seq, Len(seq) - n + 1, Len(seq))

Range(seq) == {seq[i] : i \in 1..Len(seq)}

(***************************************************************************)
(* Router: agent registry (router_agent.py 49-81)                          *)
(***************************************************************************)
program == <<"p","r","o","g","r","a","m">>

admissions == <<"a","d","m","i","s","s","i","o","n","s">>

financial == <<"f","i","n","a","n","c","i","a","l">>

general == <<"g","e","n","e","r","a","l">>

\* the four categories, in the registry's (dict insertion) order
Categories == <<program, admissions, financial, general>>

expertise_program ==
    << <<"c","o","u","r","s","e","s">>,
       <<"c","l","a","s","s","e","s">>,
       <<"c","u","r","r","i","c","u","l","u","m">>,
       <<"d","e","g","r","e","e">>,
       <<"c","e","r","t","i","f","i","c","a","t","e">>,
       <<"p","r","o","g","r","a","m"," ","r","e","q","u","i","r","e","m","e","n","t","s">>,
       <<"p","r","e","r","e","q","u","i","s","i","t","e","s">>,
       <<"c","o","u","r","s","e"," ","d","e","s","c","r","i","p","t","i","o","n","s">>,
       <<"c","r","e","d","i","t","s">>,
       <<"c","o","u","r","s","e"," ","c","o","d","e","s">>,
       <<"t","r","a","i","n","i","n","g">>,
       <<"p","a","t","h","w","a","y">> >>

expertise_admissions ==
    << <<"a","d","m","i","s","s","i","o","n">>,
       <<"a","p","p","l","y">>,
       <<"a","p","p","l","i","c","a","t","i","o","n">>,
       <<"e","n","r","o","l","l","m","e","n","t">>,
       <<"e","n","r","o","l","l">>,
       <<"r","e","q","u","i","r","e","m","e","n","t","s">>,
       <<"d","e","a","d","l","i","n","e">>,
       <<"p","l","a","c","e","m","e","n","t"," ","t","e","s","t">>,
       <<"a","c","c","e","p","t","a","n","c","e">>,
       <<"r","e","g","i","s","t","r","a","t","i","o","n">>,
       <<"q","u","a","l","i","f","y">>,
       <<"e","l","i","g","i","b","i","l","i","t","y">> >>

expertise_financial ==
    << <<"c","o","s","t">>,
       <<"t","u","i","t","i","o","n">>,
       <<"f","e","e","s">>,
       <<"p","r","i","c","e">>,
       <<"f","i","n","a","n","c","i","a","l"," ","a","i","d">>,
       <<"s","c","h","o","l","a","r","s","h","i","p">>,
       <<"g","r","a","n","t">>,
       <<"l","o","a","n">>,
       <<"F","A","F","S","A">>,
       <<"p","a","y","m","e","n","t">>,
       <<"a","f","f","o","r","d">>,
       <<"e","x","p","e","n","s","i","v","e">>,
       <<"f","u","n","d","i","n","g">>,
       <<"m","o","n","e","y">> >>

expertise_general ==
    << <<"h","e","l","p">>,
       <<"h","e","l","l","o">>,
       <<"h","i">>,
       <<"h","e","y">>,
       <<"t","h","a","n","k","s">>,
       <<"t","h","a","n","k"," ","y","o","u">>,
       <<"w","h","o"," ","a","r","e"," ","y","o","u">>,
       <<"w","h","a","t"," ","c","a","n"," ","y","o","u"," ","d","o">>,
       <<"a","s","s","i","s","t">>,
       <<"s","u","p","p","o","r","t">> >>

\* agent_registry[agent_id]["expertise"], indexed like Categories
agent_registry == <<expertise_program, expertise_admissions, expertise_financial, expertise_general>>

(***************************************************************************)
(* Router: normalisation, classification, fallback                         *)
(***************************************************************************)
\* fault: the key is built without lowercasing
normalize_query_case_kept(query) == Join(Words(Strip(query)), <<" ">>)

\* _normalize_query: ' '.join(query.lower().strip().split())
normalize_query(query) == Join(Words(Strip(Lower(query))), <<" ">>)

\* fault: the keywords are looked up in the query as typed, not lowercased
keyword_based_routing_case_kept(query) ==
    LET matched(i)  == ContainsAny(query, agent_registry[i])
        idx         == Filter(<<1, 2, 3, 4>>, matched)
        selected    == [k \in 1..Len(idx) |-> Categories[idx[k]]]
    IN  IF selected = <<>> THEN <<program>> ELSE selected

\* _keyword_based_routing: the categories one of whose keywords occurs in
\* the lowercased query, in registry order; [program] when none does
keyword_based_routing(query) ==
    LET query_lower == Lower(query)
        matched(i)  == ContainsAny(query_lower, agent_registry[i])
        idx         == Filter(<<1, 2, 3, 4>>, matched)
        selected    == [k \in 1..Len(idx) |-> Categories[idx[k]]]
    IN  IF selected = <<>> THEN <<program>> ELSE selected

TagAgents == <<"A","G","E","N","T","S",":">>

TagReasoning == <<"R","E","A","S","O","N","I","N","G",":">>

FallbackReasoning ==
    <<"F","a","l","l","b","a","c","k"," ","k","e","y","w","o","r","d","-",
      "b","a","s","e","d"," ","r","o","u","t","i","n","g">>

CachedSuffix == <<" ","(","c","a","c","h","e","d",")">>

\* what a call of the generation service does: it returns a text or raises
Returns(text) == [raises |-> FALSE, text |-> text]

Raises == [raises |-> TRUE, text |-> <<>>]

RECURSIVE ParseLines(_, _, _)
\* the parsing loop of analyze_intent over response_text.split('\n'):
\* a later AGENTS: / REASONING: line overwrites an earlier one
ParseLines(lines, selected_agents, reasoning) ==
    IF lines = <<>> THEN [agents |-> selected_agents, reasoning |-> reasoning]
    ELSE LET line == Head(lines)
         IN  IF StartsWith(line, TagAgents)
             THEN LET agents_str == StripChars(Strip(SplitField1(line, TagAgents)), {"[", "]"})
                  IN  ParseLines(Tail(lines), Map(Split(agents_str, ","), Strip), reasoning)
             ELSE IF StartsWith(line, TagReasoning)
             THEN ParseLines(Tail(lines), selected_agents, Strip(SplitField1(line, TagReasoning)))
             ELSE ParseLines(Tail(lines), selected_agents, reasoning)

\* analyze_intent, given what its generation call does (generation is
\* Returns(response_text) or Raises): no handler surrounds the call, so an
\* exception of generate_content leaves analyze_intent
analyze_intent(query, generation) ==
    IF generation.raises
    THEN [status |-> "raise", agents |-> <<>>, reasoning |-> <<>>]
    ELSE LET parsed == ParseLines(Split(generation.text, "\n"), <<>>, <<>>)
         IN  IF parsed.agents = <<>>
             THEN [status |-> "ok", agents |-> keyword_based_routing(query),
                   reasoning |-> FallbackReasoning]
             ELSE [status |-> "ok", agents |-> parsed.agents, reasoning |-> parsed.reasoning]

(***************************************************************************)
(* State                                                                   *)
(***************************************************************************)
VARIABLES
    routing_cache,   \* _routing_cache: the entries in insertion order (a Python dict)
    route_result,    \* outcome of the latest route() call
    inserted_at,     \* history variable: key -> number of the insertion that stored it
    inserts,         \* history variable: number of cache insertions so far
    issued,          \* highest generated query id stored so far (SpecCache input order)
    sessions,        \* SessionManager.sessions: session id -> session
    clock,           \* datetime.now(): the number of timestamps handed out
    metrics,         \* ObservabilityLogger.metrics
    events,          \* the event stream written by ObservabilityLogger._write_log
    pc,              \* where the process_query call in progress stands
    cur,             \* the locals of the process_query call in progress
    futures,         \* the futures submitted to the ThreadPoolExecutor, in submit order
    agent_responses, \* agent_responses of the call in progress
    service_calls,   \* history variable: specialist invocations of this call and the service calls they made
    result,          \* what the latest process_query call returned or raised
    ncalls,          \* number of process_query calls started
    disk,            \* storage_dir: session id -> the contents of session_<id>.json
    last_op,         \* the latest SessionManager operation called directly, and its outcome
    added,           \* history variable: session id -> every message added to its history object
    inserted_values, \* history variable: session id -> the interests and goals ever inserted
    threads          \* the calls in progress on concurrent threads (SpecLog, SpecRoutes)

routerVars == <<routing_cache, route_result, inserted_at, inserts, issued>>

storeVars == <<sessions, clock>>

logVars == <<metrics, events>>

procVars == <<pc, cur, futures, agent_responses, service_calls, result, ncalls>>

diskVars == <<disk, last_op, added, inserted_values>>

threadVars == <<threads>>

vars == <<routing_cache, route_result, inserted_at, inserts, issued, sessions, clock,
          metrics, events, pc, cur, futures, agent_responses, service_calls, result, ncalls,
          disk, last_op, added, inserted_values, threads>>

\* max 100 entries (router_agent.py 211)
MaxCacheSize == 100

CacheKeys(cache) == {cache[i].key : i \in 1..Len(cache)}

\* key in _routing_cache
CacheHas(cache, key) == \E i \in 1..Len(cache) : cache[i].key = key

\* _routing_cache[key]
CacheGet(cache, key) == cache[CHOOSE i \in 1..Len(cache) : cache[i].key = key]

\* fault: the last key in insertion order is taken, as popitem() would
newest_key(cache) == cache[Len(cache)].key

\* next(iter(_routing_cache)): the first key in insertion order
oldest_key(cache) == cache[1].key

\* del _routing_cache[key]
CacheDelete(cache, key) ==
    LET i == CHOOSE j \in 1..Len(cache) : cache[j].key = key
    IN  SubSeq(cache, 1, i - 1) \o SubSeq(cache, i + 1, Len(cache))

\* _routing_cache[key] = value: a new key goes last, a present key keeps its place
CacheStore(cache, key, value) ==
    IF CacheHas(cache, key)
    THEN [i \in 1..Len(cache) |->
            IF cache[i].key = key
            THEN [key |-> key, agents |-> value.agents, reasoning |-> value.reasoning]
            ELSE cache[i]]
    ELSE Append(cache, [key |-> key, agents |-> value.agents, reasoning |-> value.reasoning])

\* fault: the size test is off by one
CacheTrimLate(cache) ==
    IF Len(cache) > MaxCacheSize + 1 THEN CacheDelete(cache, oldest_key(cache)) ELSE cache

\* "Keep cache size manageable": drop the oldest entry when over the limit
CacheTrim(cache) ==
    IF Len(cache) > MaxCacheSize THEN CacheDelete(cache, oldest_key(cache)) ELSE cache

\* route(query), given what the generation service does if it is called.
\* status "raise": the exception of the generation call leaves route().
\* hit, llm_calls (classification calls issued) and generation_raised record
\* what happened during the call.
route(cache, query, generation) ==
    LET normalized == normalize_query(query)
    IN  IF CacheHas(cache, normalized)
        THEN LET cached == CacheGet(cache, normalized)
             IN  [status |-> "ok", hit |-> TRUE, llm_calls |-> 0, key |-> normalized,
                  generation_raised |-> FALSE,
                  cache |-> cache,
                  query |-> query,
                  selected_agents |-> cached.agents,
                  reasoning |-> cached.reasoning \o CachedSuffix]
        ELSE LET analysis == analyze_intent(query, generation)
             IN  IF analysis.status = "raise"
                 THEN [status |-> "raise", hit |-> FALSE, llm_calls |-> 1, key |-> normalized,
                       generation_raised |-> TRUE,
                       cache |-> cache,
                       query |-> query, selected_agents |-> <<>>, reasoning |-> <<>>]
                 ELSE [status |-> "ok", hit |-> FALSE, llm_calls |-> 1, key |-> normalized,
                       generation_raised |-> FALSE,
                       cache |-> CacheTrim(CacheStore(cache, normalized, analysis)),
                       query |-> query,
                       selected_agents |-> analysis.agents,
                       reasoning |-> analysis.reasoning]

\* what route() returned (or that it raised), without the cache
RouteRecord(r) ==
    [status |-> r.status, hit |-> r.hit, llm_calls |-> r.llm_calls, key |-> r.key,
     generation_raised |-> r.generation_raised,
     query |-> r.query, selected_agents |-> r.selected_agents, reasoning |-> r.reasoning]

NoRoute ==
    [status |-> "none", hit |-> FALSE, llm_calls |-> 0, key |-> <<>>,
     generation_raised |-> FALSE,
     query |-> <<>>, selected_agents |-> <<>>, reasoning |-> <<>>]

\* the effect of one route() call on the router state and its history variables
RouteEffect(r) ==
    /\ routing_cache' = r.cache
    /\ route_result' = RouteRecord(r)
    /\ IF r.status = "ok" /\ ~r.hit
       THEN /\ inserts' = inserts + 1
            /\ inserted_at' =
                 [k \in CacheKeys(r.cache) |->
                    IF k = r.key THEN inserts + 1 ELSE inserted_at[k]]
       ELSE UNCHANGED <<inserts, inserted_at>>

(***************************************************************************)
(* Session store (session_manager.py)                                      *)
(***************************************************************************)
\* Python None / the empty text: both are false in `if major:`
None == <<>>

\* ConversationHistory(max_history=10)
max_history == 10

\* "Keep only last 20 questions" (session_manager.py 177)
MaxPreviousQuestions == 20

Min(a, b) == IF a < b THEN a ELSE b

\* s[:n]
Take(s, n) == SubSeq(s, 1, Min(n, Len(s)))

RECURSIVE SetToSeq(_)
\* list(set): the elements once each, in an order the language leaves open
SetToSeq(S) ==
    IF S = {} THEN <<>>
    ELSE LET x == CHOOSE y \in S : TRUE IN <<x>> \o SetToSeq(S \ {x})

\* StudentContext()
NewStudentContext ==
    [major |-> None, year |-> None, interests |-> <<>>, goals |-> <<>>,
     previous_questions |-> <<>>]

\* the session dict create_session stores
NewSession(now) ==
    [created_at |-> now, student_context |-> NewStudentContext,
     conversation_history |-> <<>>, metadata |-> <<>>]

\* StudentContext.to_context_string
to_context_string(c) ==
    LET parts ==
            (IF c.major # None THEN << <<"Major: ">> \o c.major >> ELSE <<>>)
         \o (IF c.year # None THEN << <<"Year: ">> \o c.year >> ELSE <<>>)
         \o (IF c.interests # <<>>
             THEN << <<"Interests: ">> \o Join(c.interests, <<", ">>) >> ELSE <<>>)
         \o (IF c.goals # <<>>
             THEN << <<"Goals: ">> \o Join(c.goals, <<", ">>) >> ELSE <<>>)
    IN  IF parts = <<>> THEN <<"No prior context">> ELSE Join(parts, <<" | ">>)

\* fault: the slice keeps the front of the list, messages[:max_history * 2]
history_add_message_front(messages, role, content, now) ==
    LET appended == Append(messages, [role |-> role, content |-> content, timestamp |-> now])
    IN  IF Len(appended) > max_history * 2
        THEN SubSeq(appended, 1, max_history * 2)
        ELSE appended

\* fault: the history is cut to max_history messages instead of max_history * 2
history_add_message_short(messages, role, content, now) ==
    LET appended == Append(messages, [role |-> role, content |-> content, timestamp |-> now])
    IN  IF Len(appended) > max_history * 2
        THEN LastN(appended, max_history)
        ELSE appended

\* ConversationHistory.add_message
history_add_message(messages, role, content, now) ==
    LET appended == Append(messages, [role |-> role, content |-> content, timestamp |-> now])
    IN  IF Len(appended) > max_history * 2
        THEN LastN(appended, max_history * 2)
        ELSE appended

\* ConversationHistory.get_recent_context
get_recent_context(messages, n) ==
    LET recent == IF Len(messages) >= n * 2 THEN LastN(messages, n * 2) ELSE messages
        line(msg) ==
            <<IF msg.role = "user" THEN "Student" ELSE "Advisor", ": ">>
                \o Take(msg.content, 100) \o <<"...">>
    IN  IF recent = <<>> THEN <<"No prior conversation">>
        ELSE Join(Map(recent, line), <<"\n">>)

\* fault: the new values are appended without list(set(...))
update_student_context_extend(sess, session_id, major, year, interests, goals) ==
    IF session_id \notin DOMAIN sess
    THEN [status |-> "not_found", sessions |-> sess]
    ELSE LET c  == sess[session_id].student_context
             c2 == [c EXCEPT
                      !.major = IF major # None THEN major ELSE @,
                      !.year = IF year # None THEN year ELSE @,
                      !.interests = @ \o interests,
                      !.goals = @ \o goals]
         IN  [status |-> "ok",
              sessions |-> [sess EXCEPT ![session_id].student_context = c2]]

\* SessionManager.update_student_context; status "not_found" is the ValueError
update_student_context(sess, session_id, major, year, interests, goals) ==
    IF session_id \notin DOMAIN sess
    THEN [status |-> "not_found", sessions |-> sess]
    ELSE LET c  == sess[session_id].student_context
             c2 == [c EXCEPT
                      !.major = IF major # None THEN major ELSE @,
                      !.year = IF year # None THEN year ELSE @,
                      !.interests = IF interests # <<>>
                                    THEN SetToSeq(Range(@ \o interests)) ELSE @,
                      !.goals = IF goals # <<>>
                                THEN SetToSeq(Range(@ \o goals)) ELSE @]
         IN  [status |-> "ok",
              sessions |-> [sess EXCEPT ![session_id].student_context = c2]]

\* fault: the list is cut to its first 20 entries, the newest question is dropped
add_message_oldest_kept(sess, session_id, role, content, now) ==
    IF session_id \notin DOMAIN sess
    THEN [status |-> "not_found", sessions |-> sess]
    ELSE LET s  == sess[session_id]
             h  == history_add_message(s.conversation_history, role, content, now)
             pq == IF role = "user"
                   THEN Take(Append(s.student_context.previous_questions, content),
                             MaxPreviousQuestions)
                   ELSE s.student_context.previous_questions
         IN  [status |-> "ok",
              sessions |-> [sess EXCEPT
                              ![session_id].conversation_history = h,
                              ![session_id].student_context.previous_questions = pq]]

\* SessionManager.add_message; status "not_found" is the ValueError
add_message(sess, session_id, role, content, now) ==
    IF session_id \notin DOMAIN sess
    THEN [status |-> "not_found", sessions |-> sess]
    ELSE LET s  == sess[session_id]
             h  == history_add_message(s.conversation_history, role, content, now)
             pq == IF role = "user"
                   THEN LastN(Append(s.student_context.previous_questions, content),
                              MaxPreviousQuestions)
                   ELSE s.student_context.previous_questions
         IN  [status |-> "ok",
              sessions |-> [sess EXCEPT
                              ![session_id].conversation_history = h,
                              ![session_id].student_context.previous_questions = pq]]

\* SessionManager.get_context_for_agent
get_context_for_agent(sess, session_id) ==
    IF session_id \notin DOMAIN sess
    THEN [student_context |-> <<"No prior context">>,
          conversation_context |-> <<"No prior conversation">>]
    ELSE [student_context |-> to_context_string(sess[session_id].student_context),
          conversation_context |->
              get_recent_context(sess[session_id].conversation_history, 5)]

programs ==
    << <<"n","u","r","s","i","n","g">>,
       <<"c","a","r","p","e","n","t","r","y">>,
       <<"w","e","l","d","i","n","g">>,
       <<"d","e","n","t","a","l">>,
       <<"h","e","a","l","t","h","c","a","r","e">>,
       <<"m","e","d","i","c","a","l">>,
       <<"c","o","n","s","t","r","u","c","t","i","o","n">>,
       <<"a","u","t","o","m","o","t","i","v","e">>,
       <<"c","u","l","i","n","a","r","y">> >>

years ==
    << <<"f","r","e","s","h","m","a","n">>,
       <<"s","o","p","h","o","m","o","r","e">>,
       <<"j","u","n","i","o","r">>,
       <<"s","e","n","i","o","r">>,
       <<"f","i","r","s","t"," ","y","e","a","r">>,
       <<"s","e","c","o","n","d"," ","y","e","a","r">> >>

\* the first entry of pats that occurs in s, None when none does (for .. if .. break)
FirstMatch(s, pats) ==
    LET hits == {i \in 1..Len(pats) : Contains(s, pats[i])}
    IN  IF hits = {} THEN None
        ELSE pats[CHOOSE i \in hits : \A j \in hits : i <= j]

\* fault: the hints are returned to the caller but not stored in the session
extract_context_from_query_unstored(sess, session_id, query) ==
    LET query_lower == Lower(query)
        major == Title(FirstMatch(query_lower, programs))
        year  == Title(FirstMatch(query_lower, years))
    IN  IF session_id \notin DOMAIN sess /\ (major # None \/ year # None)
        THEN [status |-> "not_found", sessions |-> sess, major |-> major, year |-> year]
        ELSE [status |-> "ok", sessions |-> sess, major |-> major, year |-> year]

\* fault: the query is recorded among the previous questions during extraction,
\* before the router is asked
extract_context_from_query_recorded(sess, session_id, query) ==
    LET query_lower == Lower(query)
        major == Title(FirstMatch(query_lower, programs))
        year  == Title(FirstMatch(query_lower, years))
        asked == IF session_id \in DOMAIN sess
                 THEN [sess EXCEPT ![session_id].student_context.previous_questions =
                                      LastN(Append(@, query), MaxPreviousQuestions)]
                 ELSE sess
    IN  IF major = None /\ year = None
        THEN [status |-> "ok", sessions |-> asked, major |-> None, year |-> None]
        ELSE LET u == update_student_context(asked, session_id, major, year, <<>>, <<>>)
             IN  [status |-> u.status, sessions |-> u.sessions,
                  major |-> major, year |-> year]

\* SessionManager.extract_context_from_query: the store is touched (and the
\* session looked up) only if a hint was found
extract_context_from_query(sess, session_id, query) ==
    LET query_lower == Lower(query)
        major == Title(FirstMatch(query_lower, programs))
        year  == Title(FirstMatch(query_lower, years))
    IN  IF major = None /\ year = None
        THEN [status |-> "ok", sessions |-> sess, major |-> None, year |-> None]
        ELSE LET u == update_student_context(sess, session_id, major, year, <<>>, <<>>)
             IN  [status |-> u.status, sessions |-> u.sessions,
                  major |-> major, year |-> year]

(***************************************************************************)
(* Observability logger (logger.py): metrics counters and event stream     *)
(***************************************************************************)
AgentNames == {"Program Advisor", "Admissions Advisor", "Financial Aid Advisor"}

ToolNames == {"course_search", "program_finder"}

RECURSIVE GCD(_, _)
GCD(a, b) == IF b = 0 THEN a ELSE GCD(b, a % b)

\* the number num / den (num >= 0, den > 0) in lowest terms; the floats of
\* the metrics are modelled as exact fractions, rounding is left out
Fraction(num, den) == [num |-> num \div GCD(num, den), den |-> den \div GCD(num, den)]

\* self.metrics after __init__ (dict.get(name, 0) reads an absent count as 0)
NewMetrics ==
    [total_queries |-> 0, total_agent_calls |-> 0, total_tool_calls |-> 0,
     average_response_time |-> Fraction(0, 1),
     agent_usage |-> [a \in AgentNames |-> 0],
     tool_usage |-> [t \in ToolNames |-> 0]]

Event(kind, session_id, name) == [event |-> kind, session_id |-> session_id, name |-> name]

\* log_query
log_query(log, session_id) ==
    [metrics |-> [log.metrics EXCEPT !.total_queries = @ + 1],
     events  |-> Append(log.events, Event("user_query", session_id, ""))]

\* log_routing
log_routing(log, session_id) ==
    [log EXCEPT !.events = Append(@, Event("routing_decision", session_id, ""))]

\* log_agent_execution
log_agent_execution(log, session_id, agent_name) ==
    [metrics |-> [log.metrics EXCEPT !.total_agent_calls = @ + 1,
                                     !.agent_usage[agent_name] = @ + 1],
     events  |-> Append(log.events, Event("agent_execution", session_id, agent_name))]

\* log_tool_usage
log_tool_usage(log, session_id, tool_name) ==
    [metrics |-> [log.metrics EXCEPT !.total_tool_calls = @ + 1,
                                     !.tool_usage[tool_name] = @ + 1],
     events  |-> Append(log.events, Event("tool_execution", session_id, tool_name))]

\* log_memory_update
log_memory_update(log, session_id) ==
    [log EXCEPT !.events = Append(@, Event("memory_update", session_id, ""))]

\* log_response: the event, then
\* average_response_time = ((current_avg * (n - 1)) + total_time) / n
\* with n = metrics["total_queries"]
log_response(log, session_id, total_time) ==
    LET n           == log.metrics.total_queries
        current_avg == log.metrics.average_response_time
    IN  [metrics |-> [log.metrics EXCEPT !.average_response_time =
                        Fraction(current_avg.num * (n - 1) + total_time * current_avg.den,
                                 current_avg.den * n)],
         events  |-> Append(log.events,
                            Event("system_response", session_id, "")
                               @@ [total_time |-> total_time])]

RECURSIVE LogTools(_, _, _)
\* for tool in tools_used: self.logger.log_tool_usage(...)
LogTools(log, session_id, tools_used) ==
    IF tools_used = <<>> THEN log
    ELSE LogTools(log_tool_usage(log, session_id, Head(tools_used)), session_id,
                  Tail(tools_used))

\* fault: the tool events of a result are written before its agent_execution event
LogAgentResult_tools_first(log, session_id, res) ==
    log_agent_execution(LogTools(log, session_id, res.tools_used), session_id, res.agent)

\* what the orchestrator logs for one specialist result (orchestrator.py 154-157, 177-180)
LogAgentResult(log, session_id, res) ==
    LogTools(log_agent_execution(log, session_id, res.agent), session_id, res.tools_used)

(***************************************************************************)
(* Specialist agents (base_rag_agent.py, program_agent.py, ...)            *)
(***************************************************************************)
\* the keys of MultiAgentOrchestrator.agents
AgentIds == {program, admissions, financial}

\* agent.name
agent_name(agent_id) ==
    IF agent_id = program THEN "Program Advisor"
    ELSE IF agent_id = admissions THEN "Admissions Advisor"
    ELSE "Financial Aid Advisor"

\* what a call of the retrieval service does: it returns chunks or raises
Found(chunks) == [raises |-> FALSE, chunks |-> chunks]

RetrievalRaises == [raises |-> TRUE, chunks |-> <<>>]

\* chunk["content"][:150]
PreviewLen == 150

\* the {"page", "preview"} entry built for one retrieved chunk
Source(chunk) == [page |-> chunk.page, preview |-> Take(chunk.content, PreviewLen)]

CourseKeywords ==
    << <<"c","o","u","r","s","e">>,
       <<"c","l","a","s","s">>,
       <<"c","r","e","d","i","t">>,
       <<"p","r","e","r","e","q","u","i","s","i","t","e">> >>

ProgramKeywords ==
    << <<"p","r","o","g","r","a","m">>,
       <<"m","a","j","o","r">>,
       <<"d","e","g","r","e","e">>,
       <<"c","e","r","t","i","f","i","c","a","t","e">> >>

fields ==
    << <<"h","e","a","l","t","h","c","a","r","e">>,
       <<"n","u","r","s","i","n","g">>,
       <<"d","e","n","t","a","l">>,
       <<"m","e","d","i","c","a","l">>,
       <<"c","a","r","p","e","n","t","r","y">>,
       <<"c","o","n","s","t","r","u","c","t","i","o","n">>,
       <<"w","e","l","d","i","n","g">>,
       <<"a","u","t","o","m","o","t","i","v","e">>,
       <<"c","u","l","i","n","a","r","y">>,
       <<"b","u","s","i","n","e","s","s">> >>

\* ProgramAdvisorAgent.process_query 82-115: did the course lookup / the program
\* lookup run.  search_query is the matched course code or, failing that, the
\* words longer than 3 characters; it is empty only if there is neither, and a
\* query that holds a course keyword always holds a word longer than 3.
course_search_ran(query) ==
    /\ ContainsAny(Lower(query), CourseKeywords)
    /\ \E i \in 1..Len(Words(query)) : Len(Words(query)[i]) > 3

program_finder_ran(query) ==
    /\ ContainsAny(Lower(query), ProgramKeywords)
    /\ FirstMatch(Lower(query), fields) # None

\* "tools_used": ["course_search", "program_finder"] if tool_results else []
program_tools_used(query) ==
    IF course_search_ran(query) \/ program_finder_ran(query)
    THEN <<"course_search", "program_finder">>
    ELSE <<>>

\* fault: the student context is not passed on, the parameter keeps its default ""
Received_default(context) ==
    [student_context |-> <<>>,
     conversation_history |-> context.conversation_context]

\* the student_context and conversation_history arguments of a specialist's
\* process_query, as the orchestrator passes them (orchestrator.py 147-151, 164-168)
Received(context) ==
    [student_context |-> context.student_context,
     conversation_history |-> context.conversation_context]

\* fault: a retrieval call that raised is issued a second time before giving up
agent_process_query_retry(agent_id, query, context, retrieval, generation) ==
    IF retrieval.raises
    THEN [status |-> "error", error |-> "RetrievalError",
          calls |-> <<"retrieval", "retrieval">>,
          agent |-> agent_name(agent_id), response |-> <<>>, sources |-> <<>>,
          tools_used |-> <<>>, received |-> Received(context),
          faults |-> <<"retrieval">>]
    ELSE IF generation.raises
    THEN [status |-> "error", error |-> "GenerationError",
          calls |-> <<"retrieval", "generation">>,
          agent |-> agent_name(agent_id), response |-> <<>>, sources |-> <<>>,
          tools_used |-> <<>>, received |-> Received(context),
          faults |-> <<"generation">>]
    ELSE [status |-> "ok", error |-> "",
          calls |-> <<"retrieval", "generation">>,
          agent |-> agent_name(agent_id),
          response |-> generation.text,
          sources |-> Map(retrieval.chunks, Source),
          tools_used |-> IF agent_id = program THEN program_tools_used(query) ELSE <<>>,
          received |-> Received(context), faults |-> <<>>]

\* fault: a failed retrieval is swallowed, the answer is generated from an
\* empty context and returned as a normal result
agent_process_query_swallow(agent_id, query, context, retrieval, generation) ==
    IF generation.raises
    THEN [status |-> "error", error |-> "GenerationError",
          calls |-> <<"retrieval", "generation">>,
          agent |-> agent_name(agent_id), response |-> <<>>, sources |-> <<>>,
          tools_used |-> <<>>, received |-> Received(context),
          faults |-> IF retrieval.raises THEN <<"retrieval", "generation">>
                     ELSE <<"generation">>]
    ELSE [status |-> "ok", error |-> "",
          calls |-> <<"retrieval", "generation">>,
          agent |-> agent_name(agent_id),
          response |-> generation.text,
          sources |-> IF retrieval.raises THEN <<>> ELSE Map(retrieval.chunks, Source),
          tools_used |-> IF agent_id = program THEN program_tools_used(query) ELSE <<>>,
          received |-> Received(context),
          faults |-> IF retrieval.raises THEN <<"retrieval">> ELSE <<>>]

\* agent.process_query for the three specialists: retrieve_context, then
\* generate_response, then the result dict.  No handler surrounds either call:
\* status "error" stands for the exception leaving process_query.  calls lists
\* the service calls made, in order; faults lists the services whose call raised.
agent_process_query(agent_id, query, context, retrieval, generation) ==
    IF retrieval.raises
    THEN [status |-> "error", error |-> "RetrievalError",
          calls |-> <<"retrieval">>,
          agent |-> agent_name(agent_id), response |-> <<>>, sources |-> <<>>,
          tools_used |-> <<>>, received |-> Received(context),
          faults |-> <<"retrieval">>]
    ELSE IF generation.raises
    THEN [status |-> "error", error |-> "GenerationError",
          calls |-> <<"retrieval", "generation">>,
          agent |-> agent_name(agent_id), response |-> <<>>, sources |-> <<>>,
          tools_used |-> <<>>, received |-> Received(context),
          faults |-> <<"generation">>]
    ELSE [status |-> "ok", error |-> "",
          calls |-> <<"retrieval", "generation">>,
          agent |-> agent_name(agent_id),
          response |-> generation.text,
          sources |-> Map(retrieval.chunks, Source),
          tools_used |-> IF agent_id = program THEN program_tools_used(query) ELSE <<>>,
          received |-> Received(context), faults |-> <<>>]

(***************************************************************************)
(* Orchestrator (orchestrator.py)                                          *)
(***************************************************************************)
GreetingWords ==
    << <<"h","e","l","l","o">>,
       <<"h","i">>,
       <<"h","e","y">>,
       <<"g","r","e","e","t","i","n","g","s">> >>

HelpPhrases ==
    << <<"c","a","n"," ","y","o","u"," ","h","e","l","p">>,
       <<"h","e","l","p"," ","m","e">>,
       <<"a","s","s","i","s","t">>,
       <<"w","h","a","t"," ","c","a","n"," ","y","o","u"," ","d","o">> >>

ThanksPhrases ==
    << <<"t","h","a","n","k">>,
       <<"t","h","a","n","k","s">>,
       <<"a","p","p","r","e","c","i","a","t","e">> >>

IdentityPhrases ==
    << <<"w","h","o"," ","a","r","e"," ","y","o","u">>,
       <<"w","h","a","t"," ","a","r","e"," ","y","o","u">> >>

\* _handle_general_query: one of five static templates
handle_general_query(query) ==
    LET query_lower == Lower(query)
    IN  IF ContainsAny(query_lower, GreetingWords) THEN <<"Hello! Welcome to the Bates Technical College Student Advisor.">>
        ELSE IF ContainsAny(query_lower, HelpPhrases) THEN <<"Of course! I can definitely help.">>
        ELSE IF ContainsAny(query_lower, ThanksPhrases) THEN <<"You're welcome!">>
        ELSE IF ContainsAny(query_lower, IdentityPhrases) THEN <<"I'm the Bates Technical College Student Advisor.">>
        ELSE <<"I'd be happy to help!">>

CannedResponses ==
    { <<"Hello! Welcome to the Bates Technical College Student Advisor.">>,
      <<"Of course! I can definitely help.">>,
      <<"You're welcome!">>,
      <<"I'm the Bates Technical College Student Advisor.">>,
      <<"I'd be happy to help!">> }

RECURSIVE Concat(_)
\* the concatenation of a sequence of sequences (all_sources.extend in a loop)
Concat(seqs) == IF seqs = <<>> THEN <<>> ELSE Head(seqs) \o Concat(Tail(seqs))

\* fault: the section carries the response text without the attribution
Section_unattributed(response) == response.response

\* f"**{response['agent']}:**\n{response['response']}"
Section(response) == <<"**", response.agent, ":**\n">> \o response.response

\* fault: a later source of a page replaces the earlier one, as a dict keyed
\* by page would
unique_sources_last(all_sources) ==
    LET F[i \in 0..Len(all_sources)] ==
            IF i = 0 THEN <<>>
            ELSE IF \E j \in (i + 1)..Len(all_sources) :
                        all_sources[j].page = all_sources[i].page
                 THEN F[i - 1]
                 ELSE Append(F[i - 1], all_sources[i])
    IN  F[Len(all_sources)]

\* the "Remove duplicate sources" loop: the first source of each page is kept
unique_sources(all_sources) ==
    LET F[i \in 0..Len(all_sources)] ==
            IF i = 0 THEN <<>>
            ELSE IF \E j \in 1..(i - 1) : all_sources[j].page = all_sources[i].page
                 THEN F[i - 1]
                 ELSE Append(F[i - 1], all_sources[i])
    IN  F[Len(all_sources)]

\* _synthesize_responses
synthesize_responses(responses) ==
    [response |-> Join(Map(responses, Section), <<"\n\n">>),
     sources  |-> unique_sources(Concat(Map(responses, LAMBDA r : r.sources)))]

\* fault: a lone result goes through the synthesis as well
final_output_synthesized(responses) == synthesize_responses(responses)

\* "Step 4": a lone result passes through, several are synthesized
final_output(responses) ==
    IF Len(responses) = 1
    THEN [response |-> responses[1].response, sources |-> responses[1].sources]
    ELSE synthesize_responses(responses)

\* fault: the length test expects an empty list, so the short-circuit never applies
is_general_only_never(selected_agents) ==
    /\ \E i \in 1..Len(selected_agents) : selected_agents[i] = general
    /\ Len(selected_agents) = 0

\* "general" in selected_agents and len(selected_agents) == 1
is_general_only(selected_agents) ==
    /\ \E i \in 1..Len(selected_agents) : selected_agents[i] = general
    /\ Len(selected_agents) = 1

\* fault: only the first "general" is removed, as list.remove would
specialist_ids_first_removed(selected_agents) ==
    LET first == CHOOSE i \in 1..Len(selected_agents) :
                    /\ selected_agents[i] = general
                    /\ \A j \in 1..(i - 1) : selected_agents[j] # general
        kept  == IF \E i \in 1..Len(selected_agents) : selected_agents[i] = general
                 THEN SubSeq(selected_agents, 1, first - 1)
                         \o SubSeq(selected_agents, first + 1, Len(selected_agents))
                 ELSE selected_agents
    IN  IF kept = <<>> THEN <<program>> ELSE kept

\* selected_agents = [a for a in selected_agents if a != "general"], defaulting to program
specialist_ids(selected_agents) ==
    LET kept == Filter(selected_agents, LAMBDA a : a # general)
    IN  IF kept = <<>> THEN <<program>> ELSE kept

\* valid_agents: the selected ids that are keys of self.agents
valid_agents(selected_agents) == Filter(selected_agents, LAMBDA a : a \in AgentIds)

\* ThreadPoolExecutor(max_workers=3)
max_workers == 3

NoResult ==
    [status |-> "none", error |-> "", response |-> <<>>, sources |-> <<>>,
     agents_used |-> <<>>, routing_reasoning |-> <<>>]

\* the exception leaving process_query
Failure(error) == [NoResult EXCEPT !.status = "error", !.error = error]

NoCall ==
    [session_id |-> "", query |-> <<>>,
     context |-> [student_context |-> <<>>, conversation_context |-> <<>>],
     selected_agents |-> <<>>, routing_reasoning |-> <<>>, path |-> "none",
     error |-> "", before |-> <<>>, cache_before |-> <<>>, router_invoked |-> FALSE]

Log == [metrics |-> metrics, events |-> events]

SetLog(log) == metrics' = log.metrics /\ events' = log.events

\* the future built by executor.submit(run_agent, agent_tuple)
NewFuture(agent_id) ==
    [agent_id |-> agent_id, state |-> "pending", yielded |-> FALSE,
     outcome |-> [status |-> "none", error |-> "", calls |-> <<>>,
                  agent |-> agent_name(agent_id), response |-> <<>>, sources |-> <<>>,
                  tools_used |-> <<>>, received |-> <<>>, faults |-> <<>>]]

(***************************************************************************)
(* Inputs of the orchestrator model                                        *)
(***************************************************************************)
\* cap on the number of process_query calls in one behaviour of Spec
MaxCalls == 1

\* cap on the number of process_query calls in one behaviour of SpecSeq
MaxSeqCalls == 2

\* number of greeting exchanges the warm start has behind it
WarmQueries == 10

\* the session the store holds, and an id it does not hold
KnownSession == "s1"

UnknownSession == "zz"

QHello == <<"H","e","l","l","o">>

QHelloMessy == <<" ","H","E","L","L","O"," ">>

QApplyCost == <<"a","p","p","l","y"," ","c","o","s","t">>

QNursing == <<"n","u","r","s","i","n","g"," ","c","l","a","s","s">>

Queries == {QHello, QHelloMessy, QApplyCost, QNursing}

ReplyProgram ==
    <<"A","G","E","N","T","S",":"," ","[","p","r","o","g","r","a","m","]","\n","R","E","A","S","O","N","I","N","G",":"," ","o","k">>

ReplyGeneral ==
    <<"A","G","E","N","T","S",":"," ","[","g","e","n","e","r","a","l","]","\n","R","E","A","S","O","N","I","N","G",":"," ","h","i">>

ReplyTwo ==
    <<"A","G","E","N","T","S",":"," ","[","a","d","m","i","s","s","i","o","n","s",","," ","f","i","n","a","n","c","i","a","l","]","\n","R","E","A","S","O","N","I","N","G",":"," ","o","k">>

ReplyMixed == <<"A","G","E","N","T","S",":"," ","[","g","e","n","e","r","a","l",","," ","f","i","n","a","n","c","i","a","l","]">>

ReplyFour ==
    <<"A","G","E","N","T","S",":"," ","[","p","r","o","g","r","a","m",","," ","a","d","m","i","s","s","i","o","n","s",","," ","f","i","n","a","n","c","i","a","l",","," ","p","r","o","g","r","a","m","]">>

ReplyTwice ==
    <<"A","G","E","N","T","S",":"," ","[","p","r","o","g","r","a","m",","," ","p","r","o","g","r","a","m","]">>

ReplyEmptyList == <<"A","G","E","N","T","S",":"," ","[","]">>

ReplyUnknown == <<"A","G","E","N","T","S",":"," ","[","t","u","t","o","r","]">>

ReplyNoFormat == <<"n","o"," ","i","d","e","a">>

\* general named twice and nothing else
ReplyGeneralTwice == <<"A","G","E","N","T","S",":"," ","[","g","e","n","e","r","a","l",","," ","g","e","n","e","r","a","l","]">>

\* general between two specialists, listed in an order of their own
ReplyAround ==
    <<"A","G","E","N","T","S",":"," ","[","f","i","n","a","n","c","i","a","l",","," ","g","e","n","e","r","a","l",","," ","a","d","m","i","s","s","i","o","n","s","]">>

\* what the classification call may do
Generations ==
    {Returns(ReplyProgram), Returns(ReplyGeneral), Returns(ReplyTwo), Returns(ReplyMixed),
     Returns(ReplyEmptyList), Returns(ReplyUnknown), Returns(ReplyNoFormat),
     Returns(ReplyGeneralTwice), Returns(ReplyAround), Raises}

Digit == <<"0","1","2","3","4","5","6","7","8","9">>

RECURSIVE Decimal(_)
\* str(n) for n >= 0
Decimal(n) == IF n < 10 THEN <<Digit[n + 1]>> ELSE Append(Decimal(n \div 10), Digit[(n % 10) + 1])

\* the catalog passage of page p
Chunk(p) == [page |-> p, content |-> <<"page ">> \o Decimal(p)]

\* another passage of page p
Passage(p, n) ==
    [page |-> p, content |-> <<"page ">> \o Decimal(p) \o <<" passage ">> \o Decimal(n)]

\* what a specialist's retrieval call may do: the pages overlap between
\* specialists, with the same passage or with another passage of the page
RetrievalOutcomes(agent_id) ==
    {RetrievalRaises,
     Found(IF agent_id = program THEN <<Chunk(1), Chunk(2)>>
           ELSE IF agent_id = admissions THEN <<Passage(2, 2), Chunk(3)>>
           ELSE <<Chunk(3), Chunk(1), Passage(3, 2)>>)}

\* what a specialist's generation call may do
GenerationOutcomes == {Returns(<<"answer">>), Raises}

\* end_time - start_time of a process call, in time units
ElapsedTimes == {2, 3}

(***************************************************************************)
(* process_query                                                           *)
(***************************************************************************)
NoServiceCalls ==
    [retrieval |-> 0, generation |-> 0, invoked |-> 0, failed |-> 0, received |-> <<>>,
     outcomes |-> {}]

\* service_calls after one more specialist invocation with outcome a
CountCalls(counts, a) ==
    [retrieval  |-> counts.retrieval
                      + Cardinality({i \in 1..Len(a.calls) : a.calls[i] = "retrieval"}),
     generation |-> counts.generation
                      + Cardinality({i \in 1..Len(a.calls) : a.calls[i] = "generation"}),
     invoked    |-> counts.invoked + 1,
     failed     |-> counts.failed + (IF a.status = "error" THEN 1 ELSE 0),
     received   |-> Append(counts.received, a.received),
     outcomes   |-> counts.outcomes
                      \cup {[agent |-> a.agent, status |-> a.status, error |-> a.error,
                              calls |-> a.calls, faults |-> a.faults,
                              response |-> a.response]}]

\* the result dict a specialist returned
AgentResult(a) ==
    [agent |-> a.agent, response |-> a.response, sources |-> a.sources,
     tools_used |-> a.tools_used]

\* process_query up to the point where the specialists are dispatched
\* (orchestrator.py 98-141, 160-173): log, context snapshot, context
\* extraction, routing, and the general short-circuit
ProcessQuery(session_id, query, generations) ==
    /\ pc \in {"idle", "done", "failed"}
    /\ ncalls' = ncalls + 1
    /\ service_calls' = NoServiceCalls
    /\ agent_responses' = <<>>
    /\ UNCHANGED <<issued, diskVars, threadVars>>
    /\ LET log1    == log_query(Log, session_id)
           context == get_context_for_agent(sessions, session_id)
           ext     == extract_context_from_query(sessions, session_id, query)
           call    == [NoCall EXCEPT !.session_id = session_id, !.query = query,
                                     !.context = context, !.before = sessions,
                                     !.cache_before = routing_cache]
       IN  IF ext.status = "not_found"
           THEN /\ pc' = "failed"
                /\ result' = Failure("SessionNotFound")
                /\ cur' = call
                /\ futures' = <<>>
                /\ SetLog(log1)
                /\ UNCHANGED <<routing_cache, route_result, inserted_at, inserts, sessions, clock>>
           ELSE \E generation \in (IF CacheHas(routing_cache, normalize_query(query))
                                   THEN {Raises} ELSE generations) :
                  LET r == route(routing_cache, query, generation)
                  IN  /\ RouteEffect(r)
                      /\ IF r.status = "raise"
                         THEN /\ pc' = "failed"
                              /\ result' = Failure("GenerationError")
                              /\ cur' = [call EXCEPT !.router_invoked = TRUE]
                              /\ futures' = <<>>
                              /\ SetLog(log1)
                              /\ sessions' = ext.sessions
                              /\ UNCHANGED clock
                         ELSE LET log2 == log_routing(log1, session_id)
                                  routed == [call EXCEPT !.routing_reasoning = r.reasoning,
                                                         !.router_invoked = TRUE]
                              IN  /\ SetLog(log2)
                                  /\ IF is_general_only(r.selected_agents)
                                     THEN LET general_response == handle_general_query(query)
                                              a1 == add_message(ext.sessions, session_id, "user",
                                                                query, clock + 1)
                                              a2 == add_message(a1.sessions, session_id, "assistant",
                                                                general_response, clock + 2)
                                          IN  /\ cur' = [routed EXCEPT !.path = "general"]
                                              /\ futures' = <<>>
                                              /\ IF a1.status = "not_found"
                                                 THEN /\ pc' = "failed"
                                                      /\ result' = Failure("SessionNotFound")
                                                      /\ sessions' = ext.sessions
                                                      /\ UNCHANGED clock
                                                 ELSE /\ pc' = "done"
                                                      /\ result' =
                                                           [status |-> "ok", error |-> "",
                                                            response |-> general_response,
                                                            sources |-> <<>>,
                                                            agents_used |-> <<"General Advisor">>,
                                                            routing_reasoning |-> r.reasoning]
                                                      /\ sessions' = a2.sessions
                                                      /\ clock' = clock + 2
                                     ELSE LET valid == valid_agents(specialist_ids(r.selected_agents))
                                          IN  /\ cur' = [routed EXCEPT
                                                           !.selected_agents = valid,
                                                           !.path = IF Len(valid) = 1
                                                                    THEN "single" ELSE "parallel"]
                                              /\ pc' = IF Len(valid) = 1 THEN "single" ELSE "parallel"
                                              /\ futures' = IF Len(valid) = 1 THEN <<>>
                                                            ELSE Map(valid, NewFuture)
                                              /\ result' = NoResult
                                              /\ sessions' = ext.sessions
                                              /\ UNCHANGED clock

\* the single-specialist branch (orchestrator.py 143-158): the specialist runs
\* in the calling flow; its exception leaves process_query
RunSingleAgent ==
    /\ pc = "single"
    /\ LET agent_id == cur.selected_agents[1]
       IN  \E retrieval \in RetrievalOutcomes(agent_id), generation \in GenerationOutcomes :
             LET a == agent_process_query(agent_id, cur.query, cur.context, retrieval, generation)
             IN  /\ service_calls' = CountCalls(service_calls, a)
                 /\ IF a.status = "error"
                    THEN /\ pc' = "failed"
                         /\ result' = Failure(a.error)
                         /\ UNCHANGED <<metrics, events, agent_responses>>
                    ELSE /\ pc' = "collected"
                         /\ agent_responses' = Append(agent_responses, AgentResult(a))
                         /\ SetLog(LogAgentResult(Log, cur.session_id, a))
                         /\ UNCHANGED result
    /\ UNCHANGED <<routerVars, storeVars, cur, futures, ncalls, diskVars, threadVars>>

\* fault: a worker is not released when its work item ends
RunningHeld == {i \in 1..Len(futures) : futures[i].state \in {"running", "finished"}}

\* the work items a pool worker is executing
Running == {i \in 1..Len(futures) : futures[i].state = "running"}

\* fault: the pool starts a thread per work item, whatever max_workers says
WorkerStartUnlimited(i) ==
    /\ pc \in {"parallel", "unwinding"}
    /\ futures[i].state = "pending"
    /\ \A j \in 1..(i - 1) : futures[j].state # "pending"
    /\ futures' = [futures EXCEPT ![i].state = "running"]
    /\ UNCHANGED <<routerVars, storeVars, logVars, pc, cur, agent_responses,
                   service_calls, result, ncalls, diskVars, threadVars>>

\* a pool worker takes the oldest queued work item; the pool has max_workers threads
WorkerStart(i) ==
    /\ pc \in {"parallel", "unwinding"}
    /\ futures[i].state = "pending"
    /\ \A j \in 1..(i - 1) : futures[j].state # "pending"
    /\ Cardinality(Running) < max_workers
    /\ futures' = [futures EXCEPT ![i].state = "running"]
    /\ UNCHANGED <<routerVars, storeVars, logVars, pc, cur, agent_responses,
                   service_calls, result, ncalls, diskVars, threadVars>>

\* run_agent (orchestrator.py 161-170) ends on its worker: the future holds the
\* result or the exception
WorkerFinish(i) ==
    /\ pc \in {"parallel", "unwinding"}
    /\ futures[i].state = "running"
    /\ LET agent_id == futures[i].agent_id
       IN  \E retrieval \in RetrievalOutcomes(agent_id), generation \in GenerationOutcomes :
             LET a == agent_process_query(agent_id, cur.query, cur.context, retrieval, generation)
             IN  /\ service_calls' = CountCalls(service_calls, a)
                 /\ futures' = [futures EXCEPT ![i].state = "finished", ![i].outcome = a]
    /\ UNCHANGED <<routerVars, storeVars, logVars, pc, cur, agent_responses, result, ncalls,
                   diskVars, threadVars>>

\* fault: a failed future is skipped instead of letting future.result() raise
CollectSkipFailed(i) ==
    /\ pc = "parallel"
    /\ futures[i].state = "finished"
    /\ ~futures[i].yielded
    /\ futures' = [futures EXCEPT ![i].yielded = TRUE]
    /\ IF futures[i].outcome.status = "error"
       THEN UNCHANGED <<metrics, events, agent_responses>>
       ELSE /\ SetLog(LogAgentResult(Log, cur.session_id, futures[i].outcome))
            /\ agent_responses' = Append(agent_responses, AgentResult(futures[i].outcome))
    /\ UNCHANGED <<routerVars, storeVars, pc, cur, service_calls, result, ncalls,
                   diskVars, threadVars>>

\* one round of `for future in as_completed(futures)` (orchestrator.py 175-181):
\* a finished future not yet yielded is yielded; future.result() re-raises the
\* specialist's exception, which leaves the loop
Collect(i) ==
    /\ pc = "parallel"
    /\ futures[i].state = "finished"
    /\ ~futures[i].yielded
    /\ futures' = [futures EXCEPT ![i].yielded = TRUE]
    /\ IF futures[i].outcome.status = "error"
       THEN /\ pc' = "unwinding"
            /\ cur' = [cur EXCEPT !.error = futures[i].outcome.error]
            /\ UNCHANGED <<metrics, events, agent_responses>>
       ELSE /\ SetLog(LogAgentResult(Log, cur.session_id, futures[i].outcome))
            /\ agent_responses' = Append(agent_responses, AgentResult(futures[i].outcome))
            /\ UNCHANGED <<pc, cur>>
    /\ UNCHANGED <<routerVars, storeVars, service_calls, result, ncalls, diskVars, threadVars>>

\* fault: the pool is shut down with wait=False, the exception leaves at once
ExitPoolNoWait ==
    /\ pc = "unwinding"
    /\ pc' = "failed"
    /\ result' = Failure(cur.error)
    /\ UNCHANGED <<routerVars, storeVars, logVars, cur, futures, agent_responses,
                   service_calls, ncalls, diskVars, threadVars>>

\* the exception leaves the `with ThreadPoolExecutor` block: __exit__ is
\* shutdown(wait=True), which returns once every submitted work item has run
ExitPool ==
    /\ pc = "unwinding"
    /\ \A i \in 1..Len(futures) : futures[i].state = "finished"
    /\ pc' = "failed"
    /\ result' = Failure(cur.error)
    /\ UNCHANGED <<routerVars, storeVars, logVars, cur, futures, agent_responses,
                   service_calls, ncalls, diskVars, threadVars>>

\* steps 4-6 of process_query (orchestrator.py 183-217): synthesis, memory
\* update, logging, return
Complete ==
    /\ \/ pc = "collected"
       \/ pc = "parallel" /\ \A i \in 1..Len(futures) : futures[i].yielded
    /\ \E total_time \in ElapsedTimes :
       LET final == final_output(agent_responses)
           a1 == add_message(sessions, cur.session_id, "user", cur.query, clock + 1)
           a2 == add_message(a1.sessions, cur.session_id, "assistant", final.response, clock + 2)
       IN  IF a1.status = "not_found"
           THEN /\ pc' = "failed"
                /\ result' = Failure("SessionNotFound")
                /\ UNCHANGED <<sessions, clock, metrics, events>>
           ELSE /\ pc' = "done"
                /\ sessions' = a2.sessions
                /\ clock' = clock + 2
                /\ SetLog(log_response(log_memory_update(Log, cur.session_id),
                                        cur.session_id, total_time))
                /\ result' = [status |-> "ok", error |-> "",
                              response |-> final.response,
                              sources |-> final.sources,
                              agents_used |-> Map(agent_responses, LAMBDA r : r.agent),
                              routing_reasoning |-> cur.routing_reasoning]
    /\ UNCHANGED <<routerVars, cur, futures, agent_responses, service_calls, ncalls,
                   diskVars, threadVars>>

(***************************************************************************)
(* Spec: one orchestrator serving process_query calls one at a time        *)
(***************************************************************************)
RECURSIVE WarmSessions(_)
\* the store after create_session and n exchanges "Hello" / greeting
WarmSessions(n) ==
    IF n = 0 THEN (KnownSession :> NewSession(0))
    ELSE LET a1 == add_message(WarmSessions(n - 1), KnownSession, "user", QHello, 2 * n - 1)
         IN  add_message(a1.sessions, KnownSession, "assistant",
                         handle_general_query(QHello), 2 * n).sessions

RECURSIVE WarmLog(_)
\* the logger after n general queries
WarmLog(n) ==
    IF n = 0 THEN [metrics |-> NewMetrics, events |-> <<>>]
    ELSE log_routing(log_query(WarmLog(n - 1), KnownSession), KnownSession)

\* every message those n exchanges added to the history, in order
WarmAdded(n) ==
    [i \in 1..(2 * n) |->
        [role      |-> IF i % 2 = 1 THEN "user" ELSE "assistant",
         content   |-> IF i % 2 = 1 THEN QHello ELSE handle_general_query(QHello),
         timestamp |-> i]]

\* no SessionManager operation was called directly yet
NoOp == [name |-> "none", session_id |-> "", status |-> "none", value |-> <<>>,
         n |-> 0, before |-> <<>>, disk_before |-> <<>>]

\* nothing was inserted into the interests and goals yet
NoValues == [interests |-> {}, goals |-> {}]

\* the state after construction (n = 0), or after n later calls
\* process_query(KnownSession, "Hello") classified as general
Started(n) ==
    LET first == route(<<>>, QHello, Returns(ReplyGeneral))
        last  == IF n = 1 THEN first ELSE route(first.cache, QHello, Raises)
    IN  /\ routing_cache = IF n = 0 THEN <<>> ELSE first.cache
        /\ route_result = IF n = 0 THEN NoRoute ELSE RouteRecord(last)
        /\ inserted_at = IF n = 0 THEN <<>> ELSE (first.key :> 1)
        /\ inserts = IF n = 0 THEN 0 ELSE 1
        /\ issued = 0
        /\ sessions = WarmSessions(n)
        /\ clock = 2 * n
        /\ metrics = WarmLog(n).metrics
        /\ events = WarmLog(n).events
        /\ pc = "idle"
        /\ cur = NoCall
        /\ futures = <<>>
        /\ agent_responses = <<>>
        /\ service_calls = NoServiceCalls
        /\ result = NoResult
        /\ ncalls = 0
        /\ disk = <<>>
        /\ last_op = NoOp
        /\ added = (KnownSession :> WarmAdded(n))
        /\ inserted_values = (KnownSession :> NoValues)
        /\ threads = <<>>

Init == \E n \in {0, WarmQueries} : Started(n)

\* the steps of a process_query call in progress
Step ==
    \/ RunSingleAgent
    \/ \E i \in 1..Len(futures) : WorkerStart(i)
    \/ \E i \in 1..Len(futures) : WorkerFinish(i)
    \/ \E i \in 1..Len(futures) : Collect(i)
    \/ ExitPool
    \/ Complete

Next ==
    \/ \E session_id \in {KnownSession, UnknownSession}, query \in Queries :
          /\ ncalls < MaxCalls
          /\ ProcessQuery(session_id, query, Generations)
    \/ Step

Spec == Init /\ [][Next]_vars

(***************************************************************************)
(* SpecPool: one call whose routing decision may dispatch more specialists *)
(* than the pool has workers                                               *)
(***************************************************************************)
PoolGenerations ==
    {Returns(ReplyFour), Returns(ReplyTwo), Returns(ReplyProgram), Returns(ReplyTwice)}

NextPool ==
    \/ \E query \in Queries :
          /\ pc = "idle"
          /\ ProcessQuery(KnownSession, query, PoolGenerations)
    \/ Step

SpecPool == Init /\ [][NextPool]_vars

\* SpecPool with progress: the calling thread and the pool's workers keep
\* running, and every retrieval and generation call returns or fails, so a
\* step of the call in progress that stays possible is taken
SpecPoolLive == Init /\ [][NextPool]_vars /\ WF_vars(Step)

(***************************************************************************)
(* SpecSeq: sequences of calls, successful and failed, on one session      *)
(***************************************************************************)
SeqQueries == {QHello, QHelloMessy, QApplyCost}

SeqGenerations == {Returns(ReplyGeneral), Returns(ReplyTwo), Returns(ReplyProgram), Raises}

NextSeq ==
    \/ \E session_id \in {KnownSession, UnknownSession}, query \in SeqQueries :
          /\ ncalls < MaxSeqCalls
          /\ ProcessQuery(session_id, query, SeqGenerations)
    \/ Step

SpecSeq == Init /\ [][NextSeq]_vars

(***************************************************************************)
(* SpecCache: the router alone, fed generated queries "q <id>"             *)
(***************************************************************************)
\* number of distinct generated queries
NumQueries == 102

\* cap on the number of cache insertions
MaxInserts == 103

\* the query with id n as typed plainly, and as typed with capitals and stray blanks
PlainQuery(n) == <<"q", " ">> \o Decimal(n)

MessyQuery(n) == <<" ", "Q", " ", "\t">> \o Decimal(n) \o <<" ">>

\* one query in MessyEvery is asked repeatedly, also typed the messy way
MessyEvery == 10

GeneratedQueries(n) ==
    IF n % MessyEvery = 1 THEN {PlainQuery(n), MessyQuery(n)} ELSE {PlainQuery(n)}

\* the classification text the generation service returns for the query with id n
CacheReply(n) == IF n % 2 = 0 THEN ReplyProgram ELSE ReplyGeneral

\* a caller invokes route(query); the generation service is consulted only
\* when the normalized query is not cached.  Generated queries are first
\* asked in the order of their ids; one query in MessyEvery is asked again
\* later, at any time.
Route(n, query, generations) ==
    /\ n <= issued + 1
    /\ n = issued + 1 \/ n % MessyEvery = 1
    /\ \E generation \in (IF CacheHas(routing_cache, normalize_query(query))
                          THEN {Raises} ELSE generations) :
          LET r == route(routing_cache, query, generation)
          IN  /\ (r.status = "ok" /\ ~r.hit) => inserts < MaxInserts
              /\ RouteEffect(r)
              /\ issued' = IF r.status = "ok" /\ n > issued THEN n ELSE issued
    /\ UNCHANGED <<storeVars, logVars, procVars, diskVars, threadVars>>

RouteGenerated ==
    \E n \in 1..NumQueries : \E query \in GeneratedQueries(n) :
        Route(n, query, {Returns(CacheReply(n)), Raises})

InitCache == Started(0)

NextCache == RouteGenerated

SpecCache == InitCache /\ [][NextCache]_vars

(***************************************************************************)
(* SpecStore: the SessionManager operations called directly                *)
(***************************************************************************)
\* cap on the number of SessionManager operations in one behaviour of SpecStore
MaxStoreOps == 3

\* SessionManager.create_session(session_id): an id the store holds is overwritten
create_session(sess, session_id, now) == (session_id :> NewSession(now)) @@ sess

\* SessionManager.get_session: dict.get, None for an id the store does not hold
get_session(sess, session_id) ==
    IF session_id \in DOMAIN sess THEN sess[session_id] ELSE None

\* the session_data dict save_session dumps; json.dump followed by json.load
\* gives back the same texts, lists and None
session_data(sess, session_id) ==
    [session_id           |-> session_id,
     created_at           |-> sess[session_id].created_at,
     student_context      |-> sess[session_id].student_context,
     conversation_history |-> sess[session_id].conversation_history,
     metadata             |-> sess[session_id].metadata]

\* SessionManager.save_session: the files after the call; nothing is written
\* for an id the store does not hold
save_session(sess, files, session_id) ==
    IF session_id \notin DOMAIN sess THEN files
    ELSE (session_id :> session_data(sess, session_id)) @@ files

\* the ConversationHistory load_session rebuilds: each saved message goes
\* through add_message(role, content), which stamps it with the current time
reload_history(saved, now) ==
    LET H[i \in 0..Len(saved)] ==
            IF i = 0 THEN <<>>
            ELSE history_add_message(H[i - 1], saved[i].role, saved[i].content, now + i)
    IN  H[Len(saved)]

\* SessionManager.load_session: returned is the bool it returns
load_session(sess, files, session_id, now) ==
    IF session_id \notin DOMAIN files
    THEN [returned |-> FALSE, sessions |-> sess, stamps |-> 0]
    ELSE LET data == files[session_id]
         IN  [returned |-> TRUE,
              sessions |->
                  (session_id :>
                      [created_at           |-> data.created_at,
                       student_context      |-> data.student_context,
                       conversation_history |->
                           reload_history(data.conversation_history, now),
                       metadata             |-> data.metadata]) @@ sess,
              stamps |-> Len(data.conversation_history)]

SessionIds == {KnownSession, UnknownSession}

Robots == <<"r","o","b","o","t","s">>

Art == <<"a","r","t">>

Job == <<"j","o","b">>

\* the keyword arguments of the update_student_context calls tried
ContextUpdates ==
    {[major |-> None, year |-> None, interests |-> <<Robots, Robots>>, goals |-> <<>>],
     [major |-> None, year |-> None, interests |-> <<Art, Robots>>, goals |-> <<Job>>],
     [major |-> <<"W","e","l","d","i","n","g">>, year |-> None,
      interests |-> <<>>, goals |-> <<Job, Job>>]}

\* last_op after the operation `name` ended with `status` and returned `value`
Called(name, session_id, status, value) ==
    last_op' = [name |-> name, session_id |-> session_id, status |-> status,
                value |-> value, n |-> last_op.n + 1,
                before |-> sessions, disk_before |-> disk]

CreateSession(session_id) ==
    /\ sessions' = create_session(sessions, session_id, clock + 1)
    /\ clock' = clock + 1
    /\ added' = (session_id :> <<>>) @@ added
    /\ inserted_values' = (session_id :> NoValues) @@ inserted_values
    /\ Called("create_session", session_id, "ok", session_id)
    /\ UNCHANGED <<routerVars, logVars, procVars, disk, threadVars>>

AddMessage(session_id, role, content) ==
    /\ LET a == add_message(sessions, session_id, role, content, clock + 1)
       IN  /\ sessions' = a.sessions
           /\ Called("add_message", session_id, a.status, None)
           /\ IF a.status = "ok"
              THEN /\ clock' = clock + 1
                   /\ added' = [added EXCEPT ![session_id] =
                                  Append(@, [role |-> role, content |-> content,
                                             timestamp |-> clock + 1])]
              ELSE UNCHANGED <<clock, added>>
    /\ UNCHANGED <<routerVars, logVars, procVars, disk, inserted_values, threadVars>>

UpdateStudentContext(session_id, u) ==
    /\ LET r == update_student_context(sessions, session_id, u.major, u.year,
                                       u.interests, u.goals)
       IN  /\ sessions' = r.sessions
           /\ Called("update_student_context", session_id, r.status, None)
           /\ IF r.status = "ok"
              THEN inserted_values' =
                     [inserted_values EXCEPT ![session_id] =
                        [interests |-> @.interests \cup Range(u.interests),
                         goals     |-> @.goals \cup Range(u.goals)]]
              ELSE UNCHANGED inserted_values
    /\ UNCHANGED <<routerVars, logVars, procVars, clock, disk, added, threadVars>>

ExtractContextFromQuery(session_id, query) ==
    /\ LET r == extract_context_from_query(sessions, session_id, query)
       IN  /\ sessions' = r.sessions
           /\ Called("extract_context_from_query", session_id, r.status,
                     [major |-> r.major, year |-> r.year])
    /\ UNCHANGED <<routerVars, logVars, procVars, clock, disk, added, inserted_values,
                   threadVars>>

GetSession(session_id) ==
    /\ Called("get_session", session_id,
              IF get_session(sessions, session_id) = None THEN "absent" ELSE "ok",
              get_session(sessions, session_id))
    /\ UNCHANGED <<routerVars, logVars, procVars, storeVars, disk, added, inserted_values,
                   threadVars>>

GetContextForAgent(session_id) ==
    /\ Called("get_context_for_agent", session_id,
              IF get_context_for_agent(sessions, session_id)
                    = [student_context |-> <<"No prior context">>,
                       conversation_context |-> <<"No prior conversation">>]
              THEN "absent" ELSE "ok",
              get_context_for_agent(sessions, session_id))
    /\ UNCHANGED <<routerVars, logVars, procVars, storeVars, disk, added, inserted_values,
                   threadVars>>

SaveSession(session_id) ==
    /\ disk' = save_session(sessions, disk, session_id)
    /\ Called("save_session", session_id,
              IF session_id \in DOMAIN sessions THEN "ok" ELSE "absent", None)
    /\ UNCHANGED <<routerVars, logVars, procVars, storeVars, added, inserted_values,
                   threadVars>>

LoadSession(session_id) ==
    /\ LET r == load_session(sessions, disk, session_id, clock)
       IN  /\ sessions' = r.sessions
           /\ clock' = clock + r.stamps
           /\ Called("load_session", session_id,
                     IF r.returned THEN "ok" ELSE "absent", r.returned)
           /\ IF r.returned
              THEN /\ added' = (session_id :> r.sessions[session_id].conversation_history)
                                  @@ added
                   /\ inserted_values' =
                        (session_id :>
                            [interests |-> Range(r.sessions[session_id].student_context.interests),
                             goals |-> Range(r.sessions[session_id].student_context.goals)])
                            @@ inserted_values
              ELSE UNCHANGED <<added, inserted_values>>
    /\ UNCHANGED <<routerVars, logVars, procVars, disk, threadVars>>

NextStore ==
    /\ last_op.n < MaxStoreOps
    /\ \E session_id \in SessionIds :
          \/ CreateSession(session_id)
          \/ \E role \in {"user", "assistant"} : AddMessage(session_id, role, QNursing)
          \/ \E u \in ContextUpdates : UpdateStudentContext(session_id, u)
          \/ \E query \in {QHello, QNursing} : ExtractContextFromQuery(session_id, query)
          \/ GetSession(session_id)
          \/ GetContextForAgent(session_id)
          \/ SaveSession(session_id)
          \/ LoadSession(session_id)

SpecStore == Init /\ [][NextStore]_vars

(***************************************************************************)
(* SpecQuestions: a long run of add_message calls on one session.  The     *)
(* k-th message added carries the text "q" str(k), so that every message   *)
(* differs from the others; at most MaxReplies of them are assistant       *)
(* messages, at any positions.                                             *)
(***************************************************************************)
MaxMessages == 22

MaxReplies == 2

\* the text of the k-th message
Question(k) == <<"q">> \o Decimal(k)

\* the assistant messages added to a session so far
Replies(session_id) ==
    {k \in 1..Len(added[session_id]) : added[session_id][k].role = "assistant"}

NextQuestions ==
    /\ last_op.n < MaxMessages
    /\ \E role \in {"user", "assistant"} :
          /\ role = "assistant" => Cardinality(Replies(KnownSession)) < MaxReplies
          /\ AddMessage(KnownSession, role, Question(last_op.n + 1))

SpecQuestions == Init /\ [][NextQuestions]_vars

(***************************************************************************)
(* What the end user is shown when process_query raises (agent.py 113-116, *)
(* chat.py 133-136).  A message is the sequence of the pieces its f-string *)
(* puts together; `e` is the text of the exception, str(e).                *)
(***************************************************************************)
\* answer_student_question, the except branch: the value returned
error_msg(e) ==
    <<"Error processing your question: ", e, "\n\n",
      "Please try rephrasing your question or contact support if the issue persists.">>

\* main of chat.py, the except branch: what the two print calls write
chat_error_output(e) ==
    <<"\n", "Error: ", e, "\n", "Please try rephrasing your question.\n", "\n">>

(***************************************************************************)
(* SpecLog: the metric-counting logger calls of process calls that run at  *)
(* once on the one ObservabilityLogger that get_logger hands out.  No lock *)
(* surrounds a logger method, so each `metrics[k] += 1` is a load of the   *)
(* count followed, in a later step of the thread, by a store of load + 1.  *)
(***************************************************************************)
MaxLogThreads == 2

\* the session id of the i-th process call in progress
LogSessions == <<"s1", "s2", "s3">>

\* the count-keeping logger calls of one process call, in call order:
\* log_query, then log_agent_execution and log_tool_usage for its specialist
\* (log_query alone when the router raises)
LogPrograms ==
    {<<[op |-> "log_query", name |-> ""]>>,
     <<[op |-> "log_query", name |-> ""],
       [op |-> "log_agent_execution", name |-> "Program Advisor"],
       [op |-> "log_tool_usage", name |-> "course_search"]>>,
     <<[op |-> "log_query", name |-> ""],
       [op |-> "log_agent_execution", name |-> "Admissions Advisor"]>>}

\* the event name a logger method writes
EventOf(op) ==
    IF op = "log_query" THEN "user_query"
    ELSE IF op = "log_agent_execution" THEN "agent_execution"
    ELSE "tool_execution"

\* the total a logger method counts in
TotalOf(op) ==
    IF op = "log_query" THEN "total_queries"
    ELSE IF op = "log_agent_execution" THEN "total_agent_calls"
    ELSE "total_tool_calls"

\* the thread moves on to its next logger call, or ends
NextCall(t) ==
    [t EXCEPT !.calls = Tail(@),
              !.pc = IF Len(t.calls) > 1 THEN "write_log" ELSE "done",
              !.loaded = 0]

\* a caller enters process_query on its own thread, for its own session
StartLogging(calls) ==
    /\ pc = "idle"
    /\ Len(threads) < MaxLogThreads
    /\ threads' = Append(threads,
                         [session_id |-> LogSessions[Len(threads) + 1],
                          calls |-> calls, pc |-> "write_log", loaded |-> 0])
    /\ UNCHANGED <<routerVars, storeVars, logVars, procVars, diskVars>>

\* self._write_log(log_entry)
WriteLog(i) ==
    /\ threads[i].pc = "write_log"
    /\ LET call == Head(threads[i].calls)
       IN  events' = Append(events, Event(EventOf(call.op), threads[i].session_id, call.name))
    /\ threads' = [threads EXCEPT ![i].pc = "load"]
    /\ UNCHANGED <<routerVars, storeVars, metrics, procVars, diskVars>>

\* self.metrics["total_..."] += 1, the read
LoadTotal(i) ==
    /\ threads[i].pc = "load"
    /\ threads' = [threads EXCEPT
                     ![i].loaded = metrics[TotalOf(Head(threads[i].calls).op)],
                     ![i].pc = "store"]
    /\ UNCHANGED <<routerVars, storeVars, logVars, procVars, diskVars>>

\* self.metrics["total_..."] += 1, the write
StoreTotal(i) ==
    /\ threads[i].pc = "store"
    /\ LET call == Head(threads[i].calls)
       IN  /\ metrics' = [metrics EXCEPT ![TotalOf(call.op)] = threads[i].loaded + 1]
           /\ threads' = [threads EXCEPT
                            ![i] = IF call.op = "log_query" THEN NextCall(@)
                                   ELSE [@ EXCEPT !.pc = "load_usage"]]
    /\ UNCHANGED <<routerVars, storeVars, events, procVars, diskVars>>

\* self.metrics["agent_usage"].get(agent_name, 0), or the "tool_usage" one
LoadUsage(i) ==
    /\ threads[i].pc = "load_usage"
    /\ LET call == Head(threads[i].calls)
       IN  threads' = [threads EXCEPT
                         ![i].loaded = IF call.op = "log_agent_execution"
                                       THEN metrics.agent_usage[call.name]
                                       ELSE metrics.tool_usage[call.name],
                         ![i].pc = "store_usage"]
    /\ UNCHANGED <<routerVars, storeVars, logVars, procVars, diskVars>>

\* self.metrics["agent_usage"][agent_name] = ... + 1, or the "tool_usage" one
StoreUsage(i) ==
    /\ threads[i].pc = "store_usage"
    /\ LET call == Head(threads[i].calls)
       IN  metrics' = IF call.op = "log_agent_execution"
                      THEN [metrics EXCEPT !.agent_usage[call.name] = threads[i].loaded + 1]
                      ELSE [metrics EXCEPT !.tool_usage[call.name] = threads[i].loaded + 1]
    /\ threads' = [threads EXCEPT ![i] = NextCall(@)]
    /\ UNCHANGED <<routerVars, storeVars, events, procVars, diskVars>>

NextLog ==
    \/ \E calls \in LogPrograms : StartLogging(calls)
    \/ \E i \in 1..Len(threads) : WriteLog(i)
    \/ \E i \in 1..Len(threads) : LoadTotal(i)
    \/ \E i \in 1..Len(threads) : StoreTotal(i)
    \/ \E i \in 1..Len(threads) : LoadUsage(i)
    \/ \E i \in 1..Len(threads) : StoreUsage(i)

SpecLog == Init /\ [][NextLog]_vars

(***************************************************************************)
(* SpecRoutes: route() calls of process calls that run at once.  The cache *)
(* is the module-level dict _routing_cache (router_agent.py 19-20), shared *)
(* by every caller, and route() takes no lock: a thread can be suspended   *)
(* between any two of its dict operations (the membership test, the read,  *)
(* the store, len, next(iter(...)) and del).  The classification call sits *)
(* between the membership test and the store.                              *)
(***************************************************************************)
MaxRouteThreads == 2

\* the cache after route() was called for the queries "q 1" .. "q n" in turn
\* (n <= MaxCacheSize: every query was a miss and nothing was evicted)
FilledCache(n) ==
    [k \in 1..n |->
        LET analysis == analyze_intent(PlainQuery(k), Returns(CacheReply(k)))
        IN  [key |-> normalize_query(PlainQuery(k)),
             agents |-> analysis.agents, reasoning |-> analysis.reasoning]]

\* a server that has routed n different queries, one at a time
RoutedBefore(n) ==
    /\ routing_cache = FilledCache(n)
    /\ route_result = NoRoute
    /\ inserted_at = [k \in CacheKeys(FilledCache(n)) |->
                        CHOOSE m \in 1..n : k = normalize_query(PlainQuery(m))]
    /\ inserts = n
    /\ issued = n
    /\ sessions = WarmSessions(0)
    /\ clock = 0
    /\ metrics = NewMetrics
    /\ events = <<>>
    /\ pc = "idle"
    /\ cur = NoCall
    /\ futures = <<>>
    /\ agent_responses = <<>>
    /\ service_calls = NoServiceCalls
    /\ result = NoResult
    /\ ncalls = 0
    /\ disk = <<>>
    /\ last_op = NoOp
    /\ added = (KnownSession :> <<>>)
    /\ inserted_values = (KnownSession :> NoValues)
    /\ threads = <<>>

\* the cache is full, or one entry short of it
InitRoutes == \E n \in {MaxCacheSize - 1, MaxCacheSize} : RoutedBefore(n)

\* what the thread numbered i may ask: the query cached first, or a new
\* one, which another thread may be asking too
RouteQueries(i) ==
    {PlainQuery(1), PlainQuery(MaxCacheSize + 1), PlainQuery(MaxCacheSize + i)}

\* a caller enters route(query) on its own thread
StartRoute(query) ==
    /\ Len(threads) < MaxRouteThreads
    /\ query \in RouteQueries(Len(threads) + 1)
    /\ threads' = Append(threads,
                         [query |-> query, normalized |-> normalize_query(query),
                          pc |-> "contains", analysis |-> <<>>, oldest_key |-> <<>>,
                          raised |-> "", selected_agents |-> <<>>])
    /\ UNCHANGED <<routerVars, storeVars, logVars, procVars, diskVars>>

\* `if normalized in _routing_cache:`; on a miss, self.analyze_intent(query),
\* which touches nothing shared
TestCached(i, generation) ==
    /\ threads[i].pc = "contains"
    /\ threads' =
         IF CacheHas(routing_cache, threads[i].normalized)
         THEN [threads EXCEPT ![i].pc = "read"]
         ELSE LET analysis == analyze_intent(threads[i].query, generation)
              IN  IF analysis.status = "raise"
                  THEN [threads EXCEPT ![i].pc = "raised", ![i].raised = "GenerationError"]
                  ELSE [threads EXCEPT ![i].pc = "store", ![i].analysis = analysis]
    /\ UNCHANGED <<routerVars, storeVars, logVars, procVars, diskVars>>

\* `cached = _routing_cache[normalized]` and the return of the cached decision
ReadCached(i) ==
    /\ threads[i].pc = "read"
    /\ threads' =
         IF CacheHas(routing_cache, threads[i].normalized)
         THEN [threads EXCEPT ![i].pc = "returned",
                              ![i].selected_agents =
                                  CacheGet(routing_cache, threads[i].normalized).agents]
         ELSE [threads EXCEPT ![i].pc = "raised", ![i].raised = "KeyError in lookup"]
    /\ UNCHANGED <<routerVars, storeVars, logVars, procVars, diskVars>>

\* `_routing_cache[normalized] = result`
StoreResult(i) ==
    /\ threads[i].pc = "store"
    /\ LET stored == CacheStore(routing_cache, threads[i].normalized, threads[i].analysis)
       IN  /\ routing_cache' = stored
           /\ inserts' = inserts + 1
           /\ inserted_at' = [k \in CacheKeys(stored) |->
                                IF k = threads[i].normalized THEN inserts + 1
                                ELSE inserted_at[k]]
    /\ threads' = [threads EXCEPT ![i].pc = "len"]
    /\ UNCHANGED <<route_result, issued, storeVars, logVars, procVars, diskVars>>

\* `if len(_routing_cache) > 100:`
TestLen(i) ==
    /\ threads[i].pc = "len"
    /\ threads' =
         IF Len(routing_cache) > MaxCacheSize
         THEN [threads EXCEPT ![i].pc = "oldest"]
         ELSE [threads EXCEPT ![i].pc = "returned",
                              ![i].selected_agents = threads[i].analysis.agents]
    /\ UNCHANGED <<routerVars, storeVars, logVars, procVars, diskVars>>

\* `oldest_key = next(iter(_routing_cache))`
PickOldest(i) ==
    /\ threads[i].pc = "oldest"
    /\ threads' = [threads EXCEPT ![i].pc = "del",
                                  ![i].oldest_key = oldest_key(routing_cache)]
    /\ UNCHANGED <<routerVars, storeVars, logVars, procVars, diskVars>>

\* `del _routing_cache[oldest_key]`: KeyError when the key is gone
DeleteOldest(i) ==
    /\ threads[i].pc = "del"
    /\ IF CacheHas(routing_cache, threads[i].oldest_key)
       THEN /\ routing_cache' = CacheDelete(routing_cache, threads[i].oldest_key)
            /\ inserted_at' = [k \in CacheKeys(routing_cache) \ {threads[i].oldest_key} |->
                                 inserted_at[k]]
            /\ threads' = [threads EXCEPT ![i].pc = "returned",
                                          ![i].selected_agents = threads[i].analysis.agents]
       ELSE /\ threads' = [threads EXCEPT ![i].pc = "raised",
                                          ![i].raised = "KeyError in eviction"]
            /\ UNCHANGED <<routing_cache, inserted_at>>
    /\ UNCHANGED <<route_result, inserts, issued, storeVars, logVars, procVars, diskVars>>

NextRoutes ==
    \/ \E query \in RouteQueries(Len(threads) + 1) : StartRoute(query)
    \/ \E i \in 1..Len(threads) :
          \E generation \in {Returns(CacheReply(MaxCacheSize + i)), Raises} :
             TestCached(i, generation)
    \/ \E i \in 1..Len(threads) : ReadCached(i)
    \/ \E i \in 1..Len(threads) : StoreResult(i)
    \/ \E i \in 1..Len(threads) : TestLen(i)
    \/ \E i \in 1..Len(threads) : PickOldest(i)
    \/ \E i \in 1..Len(threads) : DeleteOldest(i)

SpecRoutes == InitRoutes /\ [][NextRoutes]_vars

(***************************************************************************)
(* Properties                                                              *)
(***************************************************************************)
\* the roles and contents of a history, without the timestamps
Contents(messages) ==
    [i \in 1..Len(messages) |-> [role |-> messages[i].role, content |-> messages[i].content]]

\* the history `messages` with one exchange appended, inside the history bound
AfterExchange(messages, query, response) ==
    LastN(Contents(messages) \o <<[role |-> "user", content |-> query],
                                  [role |-> "assistant", content |-> response]>>,
          2 * max_history)

\* the history of the current call's session, now and when the call started
HistoryNow == sessions[cur.session_id].conversation_history

HistoryBefore == cur.before[cur.session_id].conversation_history

\* user, assistant, user, assistant, ...
Alternates(messages) ==
    /\ Len(messages) % 2 = 0
    /\ \A i \in 1..Len(messages) :
          messages[i].role = (IF i % 2 = 1 THEN "user" ELSE "assistant")

\* the specialists' results in the order of the routing decision
InputOrderResponses == [i \in 1..Len(futures) |-> AgentResult(futures[i].outcome)]

\* the key inserted earliest among the keys the cache holds
EarliestInserted(cache) ==
    CHOOSE k \in CacheKeys(cache) :
        \A other \in CacheKeys(cache) : inserted_at[k] <= inserted_at[other]

\* C1: when the generation call of the classification raises, route() still
\* returns a decision, the one keyword matching gives (at least one category),
\* and the latest process_query call did not fail with that error.
C1_ClassificationErrorAbsorbed ==
    route_result.generation_raised =>
        /\ route_result.status = "ok"
        /\ Len(route_result.selected_agents) >= 1
        /\ route_result.selected_agents = keyword_based_routing(route_result.query)
        /\ ~(pc = "failed" /\ cur.path = "none" /\ result.error = "GenerationError")

\* C2: every decision route() returns names at least 1 and at most 3
\* categories, each one of program, admissions, financial, general.
C2_OneToThreeKnownCategories ==
    route_result.status = "ok" =>
        /\ Len(route_result.selected_agents) \in 1..3
        /\ \A i \in 1..Len(route_result.selected_agents) :
              route_result.selected_agents[i] \in Range(Categories)

\* C3: once a dispatched specialist's retrieval or generation call has failed
\* (single or concurrent path), the call cannot return a result: when it ends,
\* it ends in a failure, and no response or agents_used is handed back.
C3_SpecialistFailureFailsCall ==
    service_calls.failed > 0 =>
        /\ pc # "done"
        /\ result.status # "ok"
        /\ pc = "failed" =>
              /\ result.status = "error"
              /\ result.error \in {"RetrievalError", "GenerationError"}
              /\ result.response = <<>>
              /\ result.agents_used = <<>>

\* C3 witness: the concurrent call failed although another specialist had
\* answered and its answer had already been collected.
C3_Witness ==
    /\ pc = "failed"
    /\ cur.path = "parallel"
    /\ service_calls.failed > 0
    /\ agent_responses # <<>>
    /\ \E i \in 1..Len(futures) : futures[i].outcome.status = "ok"

\* C4: in the concurrent path the call has neither returned nor failed while
\* a dispatched specialist invocation is still queued or running: every
\* future has finished, so every specialist was invoked, whatever the others did.
C4_JoinBeforeOutcome ==
    (pc \in {"done", "failed"} /\ cur.path = "parallel") =>
        /\ \A i \in 1..Len(futures) : futures[i].state = "finished"
        /\ service_calls.invoked = Len(futures)

\* C4 witness: the call failed, and a specialist beyond the pool's three
\* workers, never collected, had run to a successful end all the same.
C4_Witness ==
    /\ pc = "failed"
    /\ cur.path = "parallel"
    /\ Len(futures) > max_workers
    /\ \E i \in 1..Len(futures) :
          /\ futures[i].state = "finished"
          /\ ~futures[i].yielded
          /\ futures[i].outcome.status = "ok"

\* C5: a concurrent call that returned lists agents_used, the sections of
\* the response and the merged sources in the order of the routing decision.
C5_SectionsInRoutingOrder ==
    (pc = "done" /\ cur.path = "parallel") =>
        /\ result.agents_used = Map(cur.selected_agents, agent_name)
        /\ result.response = synthesize_responses(InputOrderResponses).response
        /\ result.sources = synthesize_responses(InputOrderResponses).sources

\* C6: when the router selected exactly [general] for the current call, no
\* specialist is invoked and no retrieval or specialist generation call is
\* made; on a session the store holds the call returns one of the canned
\* responses with no sources, and the history is the one before the call plus
\* the user query and that response.
C6_GeneralShortCircuit ==
    (/\ pc # "idle"
     /\ cur.path # "none"
     /\ route_result.query = cur.query
     /\ route_result.selected_agents = <<general>>) =>
        /\ pc \in {"done", "failed"}
        /\ service_calls = NoServiceCalls
        /\ futures = <<>>
        /\ agent_responses = <<>>
        /\ cur.session_id \in DOMAIN cur.before => pc = "done"
        /\ pc = "done" =>
              /\ result.response \in CannedResponses
              /\ result.sources = <<>>
              /\ Contents(HistoryNow)
                    = AfterExchange(HistoryBefore, cur.query, result.response)

\* C6 witness: a general-only call returned on a session whose history was
\* already full.
C6_Witness ==
    /\ pc = "done"
    /\ route_result.selected_agents = <<general>>
    /\ route_result.query = cur.query
    /\ ~route_result.hit
    /\ Len(HistoryBefore) = 2 * max_history
    /\ result.response \in CannedResponses

\* C7: a call that returned has appended the user query and then the returned
\* response to the session's history, on the general and the specialist path
\* alike; between calls every history has even length and alternates user,
\* assistant.
C7_TwoMessagesPerReturn ==
    /\ pc = "done" =>
          Contents(HistoryNow) = AfterExchange(HistoryBefore, cur.query, result.response)
    /\ pc \in {"idle", "done", "failed"} =>
          \A id \in DOMAIN sessions : Alternates(sessions[id].conversation_history)

\* C7 witness: the second call of a sequence returned from the specialist
\* path on a full history, after a first call that had failed.
C7_Witness ==
    /\ pc = "done"
    /\ ncalls = 2
    /\ cur.path \in {"single", "parallel"}
    /\ Len(HistoryBefore) = 2 * max_history
    /\ clock = 2 * WarmQueries + 2

\* C8: a route() call for a query whose normal form (lowercased, trimmed,
\* whitespace runs collapsed) is the key of an entry the cache holds issues no
\* classification call and returns the entry's category list, with the
\* entry's reasoning followed by " (cached)".
C8_CachedQueryNotReclassified ==
    [][\A i \in 1..Len(routing_cache) :
          (/\ route_result' # route_result
           /\ Words(Lower(routing_cache[i].key)) = Words(Lower(route_result'.query))) =>
              /\ route_result'.status = "ok"
              /\ route_result'.llm_calls = 0
              /\ route_result'.selected_agents = routing_cache[i].agents
              /\ route_result'.reasoning = routing_cache[i].reasoning \o CachedSuffix
              /\ routing_cache' = routing_cache]_vars

\* C8 witness: a query typed with capitals and stray blanks was served from
\* the entry its plainly typed form had created.
C8_Witness ==
    /\ route_result.status = "ok"
    /\ route_result.hit
    /\ route_result.llm_calls = 0
    /\ route_result.query # route_result.key
    /\ route_result.query = QHelloMessy
    /\ ncalls > 0

\* C9: the routing cache never holds more than 100 entries.
C9_CacheBounded == Len(routing_cache) <= MaxCacheSize

\* C9 witness: the cache is full after more insertions than it has room for.
C9_Witness ==
    /\ Len(routing_cache) = MaxCacheSize
    /\ inserts = MaxInserts

\* C10: a miss inserted into a cache of 100 entries evicts exactly the entry
\* inserted earliest among those present and keeps every other entry, in
\* order, followed by the new one; a hit changes neither the cache nor the
\* order of insertion, so hits in between do not change which entry goes next.
C10_EvictsEarliestInserted ==
    [][/\ (inserts' = inserts + 1 /\ Len(routing_cache) = MaxCacheSize) =>
             LET victim == EarliestInserted(routing_cache)
             IN  /\ ~CacheHas(routing_cache', victim)
                 /\ Len(routing_cache') = MaxCacheSize
                 /\ CacheHas(routing_cache', route_result'.key)
                 /\ \A i \in 1..Len(routing_cache) :
                       routing_cache[i].key # victim =>
                          \E j \in 1..Len(routing_cache') : routing_cache'[j] = routing_cache[i]
                 /\ \A k \in CacheKeys(routing_cache) \ {victim} :
                       inserted_at'[k] = inserted_at[k]
       /\ (route_result'.hit /\ route_result' # route_result) =>
             /\ routing_cache' = routing_cache
             /\ inserted_at' = inserted_at]_vars

\* C10 witness: the 101st insertion has evicted the first query's entry and
\* kept the second's.
C10_Witness ==
    /\ inserts = MaxCacheSize + 1
    /\ Len(routing_cache) = MaxCacheSize
    /\ route_result.status = "ok"
    /\ ~route_result.hit
    /\ ~CacheHas(routing_cache, normalize_query(PlainQuery(1)))
    /\ CacheHas(routing_cache, normalize_query(PlainQuery(2)))

\* C11: after any sequence of add_message calls the history of a session
\* holds at most 2 * max_history messages, and it is the most recent suffix,
\* in order, of the messages added to it.
C11_HistoryIsRecentSuffix ==
    \A id \in DOMAIN sessions :
        /\ Len(sessions[id].conversation_history) <= 2 * max_history
        /\ \E k \in 0..Len(added[id]) :
              /\ sessions[id].conversation_history
                    = SubSeq(added[id], k + 1, Len(added[id]))
              /\ k > 0 => Len(sessions[id].conversation_history) = 2 * max_history

\* C11 witness: an add_message call on a full history has pushed the oldest
\* message out.
C11_Witness ==
    /\ last_op.name = "add_message"
    /\ last_op.status = "ok"
    /\ Len(last_op.before[last_op.session_id].conversation_history) = 2 * max_history
    /\ Len(sessions[last_op.session_id].conversation_history) = 2 * max_history
    /\ Len(added[last_op.session_id]) > 2 * max_history

\* C12: after save_session and then load_session of a session, the loaded
\* session has the saved StudentContext, the saved messages (role, content and
\* timestamp, in order), the saved creation timestamp and the saved metadata.
C12_SaveLoadRoundTrip ==
    (last_op.name = "load_session" /\ last_op.status = "ok") =>
        LET loaded == sessions[last_op.session_id]
            saved  == disk[last_op.session_id]
        IN  /\ loaded.student_context = saved.student_context
            /\ loaded.conversation_history = saved.conversation_history
            /\ loaded.created_at = saved.created_at
            /\ loaded.metadata = saved.metadata

\* the sources of the collected specialist results, in result order
CollectedSources == Concat(Map(agent_responses, LAMBDA r : r.sources))

\* the position of the first source of a page among the collected sources
FirstOfPage(page) ==
    CHOOSE k \in 1..Len(CollectedSources) :
        /\ CollectedSources[k].page = page
        /\ \A j \in 1..(k - 1) : CollectedSources[j].page # page

\* C13: the source list synthesized from two or more specialist results holds
\* every page of the inputs exactly once, the entry kept for a page is the
\* first one of that page in result order, and the kept entries keep their
\* relative order.
C13_SourcesOncePerPage ==
    (pc = "done" /\ Len(agent_responses) >= 2) =>
        /\ {result.sources[i].page : i \in 1..Len(result.sources)}
              = {CollectedSources[k].page : k \in 1..Len(CollectedSources)}
        /\ \A i, j \in 1..Len(result.sources) :
              i # j => result.sources[i].page # result.sources[j].page
        /\ \A i \in 1..Len(result.sources) :
              result.sources[i] = CollectedSources[FirstOfPage(result.sources[i].page)]
        /\ \A i, j \in 1..Len(result.sources) :
              i < j => FirstOfPage(result.sources[i].page)
                          < FirstOfPage(result.sources[j].page)

\* C13 witness: four results were merged, a page came from two specialists
\* with different passages, and the merged list is shorter than the inputs.
C13_Witness ==
    /\ pc = "done"
    /\ Len(agent_responses) = 4
    /\ Len(result.sources) < Len(CollectedSources)
    /\ \E k, l \in 1..Len(CollectedSources) :
          /\ k < l
          /\ CollectedSources[k].page = CollectedSources[l].page
          /\ CollectedSources[k].preview # CollectedSources[l].preview

\* the specialist categories the routing decision of the current call names
DecidedSpecialists == Range(route_result.selected_agents) \cap AgentIds

\* C14: when the routing decision of the current call names a single
\* specialist category, the call takes the single-specialist branch: no future
\* is submitted, at most one specialist invocation is made, and a call that
\* returned made exactly one and holds exactly one result.
C14_SingleCategoryRunsOnce ==
    (/\ pc # "idle"
     /\ cur.path # "none"
     /\ route_result.query = cur.query
     /\ Cardinality(DecidedSpecialists) = 1) =>
        /\ cur.path = "single"
        /\ futures = <<>>
        /\ service_calls.invoked <= 1
        /\ pc = "done" => (service_calls.invoked = 1 /\ Len(agent_responses) = 1)

\* C15: on a session id the store does not hold, add_message,
\* update_student_context and extract_context_from_query (whatever the query)
\* fail with the not-found error, get_session, get_context_for_agent and
\* load_session of an id never saved return an absent or empty result, and
\* the sessions are left as they were.
C15_UnknownIdNotFoundOrAbsent ==
    (last_op.name # "none" /\ last_op.session_id \notin DOMAIN last_op.before) =>
        /\ last_op.name \in {"add_message", "update_student_context",
                             "extract_context_from_query"}
              => last_op.status = "not_found"
        /\ last_op.name \in {"get_session", "get_context_for_agent"}
              => last_op.status = "absent"
        /\ (last_op.name = "load_session"
               /\ last_op.session_id \notin DOMAIN last_op.disk_before)
              => last_op.status = "absent"
        /\ last_op.name \in {"add_message", "update_student_context",
                             "extract_context_from_query", "get_session",
                             "get_context_for_agent"}
              => sessions = last_op.before
        /\ (last_op.name = "load_session"
               /\ last_op.session_id \notin DOMAIN last_op.disk_before)
              => sessions = last_op.before

\* the sequence `s` holds no value at two positions
NoDuplicates(s) == \A i, j \in 1..Len(s) : s[i] = s[j] => i = j

\* C16: after any sequence of context updates on a session, repeated
\* insertions of one value included, the interests and the goals of its
\* StudentContext each hold no value twice and hold every value inserted.
C16_InterestsGoalsAreSets ==
    \A id \in DOMAIN sessions :
        LET c == sessions[id].student_context
        IN  /\ NoDuplicates(c.interests)
            /\ NoDuplicates(c.goals)
            /\ inserted_values[id].interests \subseteq Range(c.interests)
            /\ inserted_values[id].goals \subseteq Range(c.goals)

\* a second update_student_context call has inserted an interest the session
\* already held, next to a new one
C16_Witness ==
    /\ last_op.name = "update_student_context"
    /\ last_op.status = "ok"
    /\ Robots \in Range(last_op.before[last_op.session_id].student_context.interests)
    /\ Range(sessions[last_op.session_id].student_context.interests) = {Robots, Art}
    /\ Len(sessions[last_op.session_id].student_context.interests) = 2

\* the text `keyword` occurs in the text `text`
OccursIn(keyword, text) ==
    \E a \in 1..(Len(text) - Len(keyword) + 1) :
        SubSeq(text, a, a + Len(keyword) - 1) = keyword

\* the registry positions of the categories with an expertise keyword that
\* occurs in the lowercased query
KeywordMatches(query) ==
    {i \in 1..Len(Categories) :
        \E k \in 1..Len(agent_registry[i]) : OccursIn(agent_registry[i][k], Lower(query))}

\* the routing decision in hand was made by the keyword fallback
DecidedByFallback ==
    /\ route_result.status = "ok"
    /\ ~route_result.hit
    /\ route_result.reasoning = FallbackReasoning

\* C17: the keyword fallback returns a non-empty list of known categories:
\* exactly the categories one of whose expertise keywords is a substring of
\* the lowercased query, and [program] when no keyword matches.
C17_FallbackCategoriesByKeyword ==
    DecidedByFallback =>
        LET selected == route_result.selected_agents
            matches  == KeywordMatches(route_result.query)
        IN  /\ selected # <<>>
            /\ Range(selected) \subseteq Range(Categories)
            /\ matches # {} => Range(selected) = {Categories[i] : i \in matches}
            /\ matches = {} => selected = <<program>>

\* the fallback has classified a query written in capitals that matches a
\* keyword of one category only
C17_Witness ==
    /\ DecidedByFallback
    /\ route_result.query = QHelloMessy
    /\ route_result.selected_agents = <<general>>

\* the fallback has classified a query that matches two categories
C17_WitnessTwo ==
    /\ DecidedByFallback
    /\ route_result.query = QApplyCost
    /\ Len(route_result.selected_agents) = 2

\* the fallback has classified a query that matches no keyword
C17_WitnessNone ==
    /\ DecidedByFallback
    /\ KeywordMatches(route_result.query) = {}

\* the number of events of `kind` (and of `name`, unless name is "") written
EventCount(kind, name) ==
    Cardinality({i \in 1..Len(events) :
                    events[i].event = kind /\ (name = "" \/ events[i].name = name)})

\* every logger call entered so far has returned
LoggingQuiet == \A i \in 1..Len(threads) : threads[i].pc = "done"

\* C18: after any interleaving of process calls that run at once, for several
\* sessions, each total and each per-specialist count equals the number of
\* the events written for it: no increment is lost.
C18_NoLostIncrement ==
    LoggingQuiet =>
        /\ metrics.total_queries     = EventCount("user_query", "")
        /\ metrics.total_agent_calls = EventCount("agent_execution", "")
        /\ metrics.total_tool_calls  = EventCount("tool_execution", "")
        /\ \A a \in AgentNames : metrics.agent_usage[a] = EventCount("agent_execution", a)

\* C19: every process call that ends in failure, by a router error or by a
\* specialist error, has written an `error` event that carries the call's
\* session id to the event stream.
C19_FailureWritesErrorEvent ==
    pc = "failed" =>
        \E i \in 1..Len(events) :
            /\ events[i].event = "error"
            /\ events[i].session_id = cur.session_id

\* the error texts a failed process call can carry
ErrorDetails == {"RetrievalError", "GenerationError", "SessionNotFound"}

\* C20: when a query fails, the message shown to the end user, by the ADK
\* tool and by the chat loop alike, is one fixed invitation to rephrase: it
\* does not contain the text of the error, and it is the same message for
\* every other error text.
C20_FailureMessageHidesError ==
    pc = "failed" =>
        /\ result.error \notin Range(error_msg(result.error))
        /\ result.error \notin Range(chat_error_output(result.error))
        /\ \A e \in ErrorDetails :
              /\ error_msg(e) = error_msg(result.error)
              /\ chat_error_output(e) = chat_error_output(result.error)

\* the number of times `name` stands in the list of service calls `calls`
Times(calls, name) == Cardinality({k \in 1..Len(calls) : calls[k] = name})

C21_WitnessRouter ==
    /\ pc = "failed"
    /\ route_result.generation_raised
    /\ route_result.llm_calls = 1

\* the first text of `hints` that occurs in the lowercased query, capitalised
\* as str.title() does for one word or two; None when no hint occurs
HintIn(query, hints) ==
    LET found == {i \in 1..Len(hints) : OccursIn(hints[i], Lower(query))}
    IN  IF found = {} THEN None
        ELSE Title(hints[CHOOSE i \in found : \A j \in found : i <= j])

\* the StudentContext of the current call's session, now and at the call's start
ContextNow == sessions[cur.session_id].student_context

ContextBefore == cur.before[cur.session_id].student_context

\* C22: the major and year hints found in the query of a process call are
\* stored in the session's StudentContext whatever the call's routing outcome:
\* general short-circuit, specialist path, router failure, specialist failure.
C22_HintsStoredWhateverRouting ==
    (pc # "idle" /\ cur.session_id \in DOMAIN cur.before) =>
        /\ ContextNow.major = IF HintIn(cur.query, programs) # None
                              THEN HintIn(cur.query, programs) ELSE ContextBefore.major
        /\ ContextNow.year = IF HintIn(cur.query, years) # None
                             THEN HintIn(cur.query, years) ELSE ContextBefore.year

\* a call whose query names a major has failed in the router, and the major
\* is stored
C22_Witness ==
    /\ pc = "failed"
    /\ route_result.generation_raised
    /\ cur.session_id = KnownSession
    /\ ContextBefore.major = None
    /\ ContextNow.major = <<"N","u","r","s","i","n","g">>

\* the same after a specialist failure and after the general short-circuit
C22_WitnessSpecialist ==
    /\ pc = "failed"
    /\ service_calls.failed = 1
    /\ cur.session_id = KnownSession
    /\ ContextBefore.major = None
    /\ ContextNow.major = <<"N","u","r","s","i","n","g">>

C22_WitnessGeneral ==
    /\ pc = "done"
    /\ cur.path = "general"
    /\ cur.session_id = KnownSession
    /\ ContextBefore.major = None
    /\ ContextNow.major = <<"N","u","r","s","i","n","g">>

\* C23: the tools_used of a Program Advisor result names exactly the helpers
\* that ran for the query: course_search iff the course lookup ran,
\* program_finder iff the program lookup ran, nothing when neither ran; and
\* the orchestrator has written one tool_execution event per helper that ran.
C23_ToolsUsedAreToolsRun ==
    \A i \in 1..Len(agent_responses) :
        agent_responses[i].agent = "Program Advisor" =>
            LET used == Range(agent_responses[i].tools_used)
            IN  /\ "course_search" \in used <=> course_search_ran(cur.query)
                /\ "program_finder" \in used <=> program_finder_ran(cur.query)
                /\ EventCount("tool_execution", "course_search")
                      = (IF course_search_ran(cur.query) THEN 1 ELSE 0)
                /\ EventCount("tool_execution", "program_finder")
                      = (IF program_finder_ran(cur.query) THEN 1 ELSE 0)

RECURSIVE ResponseTimes(_)
\* the elapsed times of the responses logged so far, in order
ResponseTimes(written) ==
    IF written = <<>> THEN <<>>
    ELSE IF Head(written).event = "system_response"
         THEN <<Head(written).total_time>> \o ResponseTimes(Tail(written))
         ELSE ResponseTimes(Tail(written))

RECURSIVE SumOf(_)
SumOf(numbers) == IF numbers = <<>> THEN 0 ELSE Head(numbers) + SumOf(Tail(numbers))

\* C24: the average response time is the arithmetic mean of the elapsed
\* times of all responses logged so far (the divisor is the number of
\* responses logged); before the first response it is 0.
C24_AverageIsMeanOfResponses ==
    LET times == ResponseTimes(events)
        avg   == metrics.average_response_time
    IN  IF times = <<>> THEN avg.num = 0
        ELSE avg.num * Len(times) = avg.den * SumOf(times)

\* the number of collected results that carry the name of a specialist
ResultsOf(name) ==
    Cardinality({k \in 1..Len(agent_responses) : agent_responses[k].agent = name})

\* the number of entries of the routing decision that select a specialist
SelectionsOf(name) ==
    Cardinality({k \in 1..Len(cur.selected_agents) :
                    agent_name(cur.selected_agents[k]) = name})

\* the text from position first of a response up to, not including, the
\* separator of the next section (or the end of the response)
TextAt(response, first, length) == SubSeq(response, first, first + length - 1)

RECURSIVE SectionsFrom(_, _, _)
\* the response from position first on is the sections of the results k..,
\* each "**" name ":**\n" text, with "\n\n" between two sections
SectionsFrom(response, first, k) ==
    LET r       == agent_responses[k]
        heading == <<"**", r.agent, ":**\n">>
        last    == first + Len(heading) + Len(r.response) - 1
    IN  /\ last <= Len(response)
        /\ TextAt(response, first, Len(heading)) = heading
        /\ TextAt(response, first + Len(heading), Len(r.response)) = r.response
        /\ IF k = Len(agent_responses) THEN last = Len(response)
           ELSE /\ last < Len(response)
                /\ response[last + 1] = "\n\n"
                /\ SectionsFrom(response, last + 2, k + 1)

\* C25: a call for which the router selected several specialist categories
\* and that returned has invoked every selected specialist, holds one result
\* per selection, and its response is exactly one section per result: the
\* bold heading naming the specialist, then that specialist's response text.
C25_OneSectionPerSpecialist ==
    (pc = "done" /\ cur.path = "parallel" /\ Len(cur.selected_agents) >= 2) =>
        /\ service_calls.invoked = Len(cur.selected_agents)
        /\ Len(agent_responses) = Len(cur.selected_agents)
        /\ \A name \in AgentNames : ResultsOf(name) = SelectionsOf(name)
        /\ SectionsFrom(result.response, 1, 1)

\* C25 witness: admissions and financial were selected, both answered, and
\* the response returned has two sections.
C25_Witness ==
    /\ pc = "done"
    /\ cur.path = "parallel"
    /\ {cur.selected_agents[k] : k \in 1..Len(cur.selected_agents)} = {admissions, financial}
    /\ Len(agent_responses) = 2
    /\ result.status = "ok"
    /\ Len(result.response) > Len(agent_responses[1].response) + Len(agent_responses[2].response)

RECURSIVE UserContents(_)
\* the contents of the user messages among the messages, in order
UserContents(messages) ==
    IF messages = <<>> THEN <<>>
    ELSE IF Head(messages).role = "user"
         THEN <<Head(messages).content>> \o UserContents(Tail(messages))
         ELSE UserContents(Tail(messages))

\* C26: after any sequence of add_message calls the previous questions of a
\* session are at most 20, and they are the contents of the most recent (up
\* to 20) user messages added, in the order they were added: assistant
\* messages are not recorded and the oldest question leaves first.
C26_PreviousQuestionsAreLastTwenty ==
    \A s \in DOMAIN sessions :
        LET asked == UserContents(added[s])
            pq    == sessions[s].student_context.previous_questions
        IN  /\ Len(pq) <= 20
            /\ Len(pq) = IF Len(asked) < 20 THEN Len(asked) ELSE 20
            /\ \A i \in 1..Len(pq) : pq[i] = asked[Len(asked) - Len(pq) + i]

\* C26 witness: more than 20 questions were asked, with assistant messages in
\* between, and the first question asked is no longer listed.
C26_Witness ==
    LET asked == UserContents(added[KnownSession])
        pq    == sessions[KnownSession].student_context.previous_questions
    IN  /\ last_op.name = "add_message"
        /\ Len(asked) > 20
        /\ Len(added[KnownSession]) > Len(asked)
        /\ asked[1] # QHello
        /\ \A i \in 1..Len(pq) : pq[i] # asked[1]
        /\ pq[Len(pq)] = asked[Len(asked)]

\* no route() call is between its first and its last cache operation
RoutesQuiet == \A i \in 1..Len(threads) : threads[i].pc \in {"returned", "raised"}

\* C27: with process calls running at once on one orchestrator, no eviction
\* fails on a key that is already removed, and the cache holds at most 100
\* entries once the routing steps in progress have ended.
C27_CacheStepsDoNotInterleave ==
    /\ \A i \in 1..Len(threads) : threads[i].raised # "KeyError in eviction"
    /\ RoutesQuiet => Len(routing_cache) <= MaxCacheSize

\* C28: a process call that returned through the specialist path has
\* invoked at least one specialist, names at least one in agents_used, and
\* its response is the output of a specialist, whatever categories the
\* router returned.
C28_SpecialistPathInvokesOne ==
    (pc = "done" /\ cur.path \in {"single", "parallel"}) =>
        /\ service_calls.invoked >= 1
        /\ result.agents_used # <<>>
        /\ \E k \in 1..Len(agent_responses) :
              \E first \in 1..Len(result.response) :
                 TextAt(result.response, first, Len(agent_responses[k].response))
                    = agent_responses[k].response

\* the number of invocations of a specialist made for the current call: the
\* futures that were started, or the results collected
InvocationsOf(name) ==
    IF cur.path = "parallel"
    THEN Cardinality({i \in 1..Len(futures) :
                         futures[i].state # "pending" /\ agent_name(futures[i].agent_id) = name})
    ELSE ResultsOf(name)

\* C29: within one process call no specialist is invoked more than once,
\* whatever category list the router returned.
C29_NoSpecialistInvokedTwice ==
    \A name \in AgentNames : InvocationsOf(name) <= 1

\* the current call ended in the failure of the router's classification
\* call or of a dispatched specialist
FailedByRouterOrSpecialist ==
    /\ pc = "failed"
    /\ result.error \in {"RetrievalError", "GenerationError"}
    /\ \/ route_result.generation_raised /\ route_result.query = cur.query
       \/ service_calls.failed > 0

\* C30: when a process call ended in failure because the router or a
\* specialist raised, every session has the conversation history and the
\* previous questions it had before the call: neither the query nor a
\* response was appended.
C30_FailureLeavesHistory ==
    FailedByRouterOrSpecialist =>
        /\ DOMAIN sessions = DOMAIN cur.before
        /\ \A s \in DOMAIN sessions :
              /\ sessions[s].conversation_history = cur.before[s].conversation_history
              /\ sessions[s].student_context.previous_questions
                    = cur.before[s].student_context.previous_questions

\* C30 witness: the router's classification call raised during a call on a
\* session that has a history, for a query that carried a hint the
\* extraction stored.
C30_Witness ==
    /\ FailedByRouterOrSpecialist
    /\ route_result.generation_raised
    /\ cur.session_id = KnownSession
    /\ sessions[KnownSession].conversation_history # <<>>
    /\ sessions[KnownSession].student_context # cur.before[KnownSession].student_context

\* C30 witness: a specialist failed in a concurrent call after another
\* specialist's answer had been collected.
C30_WitnessSpecialist ==
    /\ FailedByRouterOrSpecialist
    /\ service_calls.failed > 0
    /\ cur.path = "parallel"
    /\ cur.session_id = KnownSession
    /\ agent_responses # <<>>

\* the current call was made with a session id the store did not hold
OnUnknownSession == pc # "idle" /\ cur.session_id \notin DOMAIN cur.before

\* C31: a process call with a session id the store does not hold ends in the
\* SessionNotFound failure before the router or a specialist is invoked, and
\* leaves the routing cache and the store as they were.
C31_UnknownSessionFailsFirst ==
    OnUnknownSession =>
        /\ pc = "failed"
        /\ result.error = "SessionNotFound"
        /\ ~cur.router_invoked
        /\ service_calls.invoked = 0
        /\ routing_cache = cur.cache_before
        /\ sessions = cur.before

\* the invocations of a specialist by the current concurrent call that ran
\* to a successful end
SucceededOf(name) ==
    Cardinality({i \in 1..Len(futures) :
                    /\ futures[i].state = "finished"
                    /\ futures[i].outcome.status = "ok"
                    /\ agent_name(futures[i].agent_id) = name})

\* C32: once a concurrent call has ended, every specialist invocation that
\* completed successfully is recorded by exactly one agent_execution event
\* and one increment of total_agent_calls, also when another specialist of
\* the call failed.
C32_SuccessfulInvocationsLogged ==
    (pc \in {"done", "failed"} /\ cur.path = "parallel") =>
        /\ \A name \in AgentNames :
              /\ EventCount("agent_execution", name) = SucceededOf(name)
              /\ metrics.agent_usage[name] = SucceededOf(name)
        /\ metrics.total_agent_calls
              = Cardinality({i \in 1..Len(futures) :
                                futures[i].state = "finished"
                                   /\ futures[i].outcome.status = "ok"})

\* the position of the latest user_query event: where the events of the
\* current call begin
CallStart ==
    CHOOSE i \in 1..Len(events) :
        /\ events[i].event = "user_query"
        /\ \A j \in (i + 1)..Len(events) : events[j].event # "user_query"

\* kind and name of the events the current call has recorded, in order
CallEvents ==
    [k \in 1..(Len(events) - CallStart + 1) |->
        <<events[CallStart + k - 1].event, events[CallStart + k - 1].name>>]

\* what one specialist result is to be recorded as: its agent_execution
\* event, then one tool_execution event per tool it names
ResultEvents(r) ==
    <<<<"agent_execution", r.agent>>>>
       \o [k \in 1..Len(r.tools_used) |-> <<"tool_execution", r.tools_used[k]>>]

\* C33: the events of a call that returned through the specialist path are,
\* in this order, user_query, routing_decision, per specialist result its
\* agent_execution event followed by its tool_execution events,
\* memory_update and system_response, all for the call's session; and when
\* the router fails, the user_query event is already recorded.
C33_EventOrder ==
    /\ (pc = "done" /\ cur.path \in {"single", "parallel"}) =>
          /\ CallEvents = <<<<"user_query", "">>, <<"routing_decision", "">>>>
                             \o Concat(Map(agent_responses, ResultEvents))
                             \o <<<<"memory_update", "">>, <<"system_response", "">>>>
          /\ \A i \in CallStart..Len(events) : events[i].session_id = cur.session_id
    /\ (pc = "failed" /\ cur.router_invoked /\ route_result.generation_raised) =>
          /\ events[Len(events)].event = "user_query"
          /\ events[Len(events)].session_id = cur.session_id

\* C33 witness: a specialist that used tools answered, and the call returned.
C33_Witness ==
    /\ pc = "done"
    /\ cur.path = "single"
    /\ agent_responses[1].tools_used # <<>>
    /\ Len(events) - CallStart + 1 >= 6

\* C33 witness: two specialists answered in the concurrent path.
C33_WitnessTwo ==
    /\ pc = "done"
    /\ cur.path = "parallel"
    /\ Len(agent_responses) = 2
    /\ events[Len(events)].event = "system_response"

\* the context texts of the call's session as the store held it when the
\* call began
Snapshot == get_context_for_agent(cur.before, cur.session_id)

\* the store after the context extraction of the current call
AfterExtraction == extract_context_from_query(cur.before, cur.session_id, cur.query).sessions

\* C34: every specialist invoked for the current call received the student
\* context and conversation context texts read from the store before the
\* call's context extraction and before the query was appended to the
\* history, hence the same texts; and the store is, until the call returns,
\* as the extraction left it: no specialist invocation changed it.
C34_SameSnapshotToEverySpecialist ==
    (pc # "idle" /\ cur.path \in {"single", "parallel"}) =>
        /\ Len(service_calls.received) = service_calls.invoked
        /\ \A k \in 1..Len(service_calls.received) :
              /\ service_calls.received[k].student_context = Snapshot.student_context
              /\ service_calls.received[k].conversation_history
                    = Snapshot.conversation_context
        /\ pc # "done" => sessions = AfterExtraction

\* C34 witness: two specialists ran for a query whose hint the extraction
\* stored, on a session with a history: the texts they received differ from
\* what the store would give now.
C34_Witness ==
    /\ pc = "parallel"
    /\ cur.session_id = KnownSession
    /\ Len(service_calls.received) = 2
    /\ service_calls.received[1] = service_calls.received[2]
    /\ cur.before[KnownSession].conversation_history # <<>>
    /\ service_calls.received[1].student_context
          # get_context_for_agent(sessions, KnownSession).student_context

\* the positions of the routing decision that name a registered specialist
SpecialistPositions ==
    {i \in 1..Len(route_result.selected_agents) :
        /\ route_result.selected_agents[i] # general
        /\ route_result.selected_agents[i] \in AgentIds}

\* the k-th smallest of the positions
NthPosition(k) ==
    CHOOSE i \in SpecialistPositions :
        Cardinality({j \in SpecialistPositions : j <= i}) = k

\* C35: on the non-general path the specialists dispatched are the entries
\* of the routing decision without any "general", in the order of the
\* decision; when the decision holds nothing but "general", they are [program].
C35_GeneralRemovedOrderKept ==
    (/\ pc # "idle"
     /\ cur.path \in {"single", "parallel"}
     /\ route_result.query = cur.query) =>
        LET decided == route_result.selected_agents
        IN  /\ \A k \in 1..Len(cur.selected_agents) : cur.selected_agents[k] # general
            /\ IF \A i \in 1..Len(decided) : decided[i] = general
               THEN cur.selected_agents = <<program>>
               ELSE /\ Len(cur.selected_agents) = Cardinality(SpecialistPositions)
                    /\ \A k \in 1..Len(cur.selected_agents) :
                          cur.selected_agents[k] = decided[NthPosition(k)]

\* C35 witness: general stood between financial and admissions; the two are
\* dispatched in that order.
C35_Witness ==
    /\ pc = "parallel"
    /\ route_result.selected_agents = <<financial, general, admissions>>
    /\ cur.selected_agents = <<financial, admissions>>

\* C35 witness: the decision was general twice; program is dispatched.
C35_WitnessDefault ==
    /\ pc = "single"
    /\ route_result.selected_agents = <<general, general>>
    /\ cur.selected_agents = <<program>>

\* C36: a call that returned with exactly one specialist result returns
\* that result's response text and source list as they are: no heading, and
\* every source in its place, sources of one page included.
C36_LoneResultPassesThrough ==
    (pc = "done" /\ cur.path \in {"single", "parallel"} /\ Len(agent_responses) = 1) =>
        /\ result.response = agent_responses[1].response
        /\ result.sources = agent_responses[1].sources
        /\ result.agents_used = <<agent_responses[1].agent>>

\* C36 witness: the lone result lists two sources of one page.
C36_Witness ==
    /\ pc = "done"
    /\ cur.path = "single"
    /\ Len(agent_responses) = 1
    /\ result.response # <<>>
    /\ \E i, j \in 1..Len(result.sources) :
          i # j /\ result.sources[i].page = result.sources[j].page

C37_WitnessAnswered ==
    /\ pc = "done"
    /\ cur.path = "single"
    /\ \E o \in service_calls.outcomes :
          o.status = "ok" /\ o.calls = <<"retrieval", "generation">> /\ o.response # <<>>

\* C38: at no time are more than 3 specialist invocations of the process
\* call running, however many specialists the call dispatched.
C38_AtMostThreeRunning ==
    /\ Cardinality(Running) <= 3
    /\ pc = "single" => Running = {}

\* C38 witness: four specialists were dispatched, three are running and the
\* fourth waits for a free worker.
C38_Witness ==
    /\ pc = "parallel"
    /\ Len(futures) = 4
    /\ Cardinality(Running) = 3
    /\ \E i \in 1..Len(futures) : futures[i].state = "pending"

\* C39: a process call in progress eventually returns a result or reports a
\* failure, for any number of dispatched specialists and any mix of
\* successes and failures: the fan-out and fan-in over the pool never
\* deadlocks.
C39_EveryCallEnds ==
    (pc \notin {"idle", "done", "failed"}) ~> (pc \in {"done", "failed"})

\* C39 witness: a call that dispatched four specialists on three workers,
\* some of which answered and some of which failed, has ended.
C39_Witness ==
    /\ pc = "failed"
    /\ Len(futures) = 4
    /\ \A i \in 1..Len(futures) : futures[i].state = "finished"
    /\ \E i \in 1..Len(futures) : futures[i].outcome.status = "ok"
    /\ \E i \in 1..Len(futures) : futures[i].outcome.status = "error"

\* C40: after create_session every session the store held before keeps its
\* StudentContext and its ConversationHistory, and the session created has
\* an empty context and an empty history.
C40_CreateKeepsOtherSessions ==
    last_op.name = "create_session" =>
        /\ \A s \in DOMAIN last_op.before :
              /\ s \in DOMAIN sessions
              /\ sessions[s].student_context = last_op.before[s].student_context
              /\ sessions[s].conversation_history = last_op.before[s].conversation_history
        /\ sessions[last_op.session_id].student_context = NewStudentContext
        /\ sessions[last_op.session_id].conversation_history = <<>>

=============================================================================
